---------------------------- MODULE Spec2Model ----------------------------
(***************************************************************************)
(* Model of the interactive transform engine of the custom image tab:      *)
(* TransformHandlesOverlay (handle geometry, hit-testing, drag gestures),  *)
(* InteractiveImageView (event filter, wheel, arrow keys) and              *)
(* CustomImageTab (layer transforms, clamping, preview refresh).           *)
(*                                                                         *)
(* Numbers.  The program computes with binary floating point.  A float is  *)
(* modelled as an integer count of units of 2^-FracBits that has at most   *)
(* MantBits significant bits; every arithmetic result is rounded to the    *)
(* nearest such number, ties to even, as IEEE arithmetic does.  Widget     *)
(* coordinates (QPointF, QRectF) are kept on a grid of 2^-GeoBits pixel.   *)
(* Angles are whole degrees.                                               *)
(***************************************************************************)
EXTENDS Integers, Sequences, FiniteSets, TLC

\* ------------------------------------------------------------------------
\* Bounds of the model (not program constants)
\* ------------------------------------------------------------------------
MantBits == 8
FracBits == 10
GeoBits == 3
ViewW == 512
ViewH == 512
MaxEvents == 4

Unit == 2 ^ FracBits
GeoUnit == 2 ^ GeoBits
TrigUnit == 2 ^ 14

\* ------------------------------------------------------------------------
\* Integer helpers
\* ------------------------------------------------------------------------
Abs(n) == IF n < 0 THEN -n ELSE n

Sgn(n) == IF n < 0 THEN -1 ELSE IF n > 0 THEN 1 ELSE 0

Min2(a, b) == IF a <= b THEN a ELSE b

Max2(a, b) == IF a >= b THEN a ELSE b

RECURSIVE BitLen(_)
BitLen(n) == IF n <= 0 THEN 0 ELSE 1 + BitLen(n \div 2)

\* q + r/d rounded to the nearest integer, ties to the even one
RoundQuotient(q, r, d) ==
    IF 2 * r > d \/ (2 * r = d /\ q % 2 = 1) THEN q + 1 ELSE q

\* n/d rounded to the nearest integer, ties to the even one (d > 0)
RoundDiv(n, d) == Sgn(n) * RoundQuotient(Abs(n) \div d, Abs(n) % d, d)

ISqrtStep(n, hi) == IF (hi + 1) * (hi + 1) <= n THEN hi + 1 ELSE hi

\* floor(sqrt(n)) for n >= 0
RECURSIVE ISqrtFrom(_, _)
ISqrtFrom(n, bit) ==
    IF bit = 0 THEN 0
    ELSE ISqrtStep(n, ISqrtFrom(n \div 4, bit - 1) * 2)

ISqrt(n) == ISqrtFrom(n, (BitLen(n) + 1) \div 2)

\* ------------------------------------------------------------------------
\* Floating point: a value is n units of 2^-FracBits
\* ------------------------------------------------------------------------

\* exponent of a float: the power of two of its last place
Exp(a) == Max2(0, BitLen(Abs(a)) - MantBits)

\* significand of a float: a = Man(a) * 2^Exp(a)
Man(a) == a \div (2 ^ Exp(a))

Ulp(a) == 2 ^ Exp(a)

Representable(a) == a % Ulp(a) = 0

\* a/d units (a >= 0) rounded to a multiple of u
RoundTo(a, d, u) == RoundDiv(a, d * u) * u

\* the rational n/d units, rounded to a float (d > 0)
FlQ(n, d) == Sgn(n) * RoundTo(Abs(n), d, Ulp(Abs(n) \div d))

\* the integer n units, rounded to a float
Fl(n) == FlQ(n, 1)

\* floor and rounding of (a/d) * 2^j
ScaledFloor(a, d, j) ==
    IF j >= 0 THEN (a * (2 ^ j)) \div d ELSE a \div (d * (2 ^ (0 - j)))

ScaledRound(a, d, j) ==
    IF j >= 0 THEN RoundDiv(a * (2 ^ j), d)
    ELSE RoundDiv(a, d * (2 ^ (0 - j)))

\* the shift that leaves MantBits significant bits of a/d
SignificandShift(a, d, j0) ==
    IF BitLen(ScaledFloor(a, d, j0)) > MantBits THEN j0 - 1 ELSE j0

RoundAtShift(a, d, s, j) == ScaledRound(a, d, j) * (2 ^ (s - j))

FlScaledAbs(a, d, s) ==
    RoundAtShift(a, d, s,
        Min2(SignificandShift(a, d, MantBits - BitLen(a) + BitLen(d)), s))

\* (n/d) * 2^s units rounded to a float (d > 0), without forming n * 2^s
FlScaled(n, d, s) ==
    IF n = 0 THEN 0 ELSE Sgn(n) * FlScaledAbs(Abs(n), d, s)

\* a float literal or quotient of two integers, num/den
Lit(num, den) == FlScaled(num, den, FracBits)

FlAdd(a, b) == Fl(a + b)

FlSub(a, b) == Fl(a - b)

\* a * b, one rounding
FlMul(a, b) == FlScaled(Man(a) * Man(b), 1, Exp(a) + Exp(b) - FracBits)

\* a / b (b # 0), one rounding
FlDiv(a, b) ==
    FlScaled(Sgn(b) * Man(a), Abs(Man(b)), Exp(a) - Exp(b) + FracBits)

\* s or s + 1, whichever is nearer the square root of v, given s = floor of it
SqrtUp(v, mid, tie, s) ==
    IF v > mid \/ (tie /\ v = mid /\ s % 2 = 1) THEN s + 1 ELSE s

SqrtRound(n, t, s) ==
    IF t >= 0 THEN SqrtUp(n * (2 ^ t), s * s + s, FALSE, s)
    ELSE SqrtUp(n, (s * s + s) * (2 ^ (0 - t)) + (2 ^ (0 - t)) \div 4, TRUE, s)

SqrtAt(n, t) ==
    SqrtRound(n, t, IF t >= 0 THEN ISqrt(n * (2 ^ t))
                    ELSE ISqrt(n \div (2 ^ (0 - t))))
        * (2 ^ (FracBits - t \div 2))

\* math.sqrt(n) for an integer n >= 0, as a float: sqrt(n) * Unit units
FlSqrt(n) ==
    IF n <= 0 THEN 0
    ELSE SqrtAt(n, 2 * ((2 * MantBits - BitLen(n)) \div 2))

SumSq(a, b) == a * a + b * b

HypotScaled(ax, ay, k) ==
    FlSqrt(SumSq(ax \div (2 ^ k), ay \div (2 ^ k))) * (2 ^ k)

\* math.sqrt(dx ** 2 + dy ** 2), as a float in units of the arguments
Hypot(dx, dy) ==
    HypotScaled(Abs(dx), Abs(dy),
                Max2(0, BitLen(Max2(Abs(dx), Abs(dy))) - 14))

\* ------------------------------------------------------------------------
\* Trigonometry in whole degrees (math.atan2, math.degrees, QTransform.rotate)
\* ------------------------------------------------------------------------

\* sin(i degrees) * TrigUnit for i = 0..90, at index i + 1
SinTable == <<
    0, 286, 572, 857, 1143, 1428, 1713, 1997, 2280, 2563,
    2845, 3126, 3406, 3686, 3964, 4240, 4516, 4790, 5063, 5334,
    5604, 5872, 6138, 6402, 6664, 6924, 7182, 7438, 7692, 7943,
    8192, 8438, 8682, 8923, 9162, 9397, 9630, 9860, 10087, 10311,
    10531, 10749, 10963, 11174, 11381, 11585, 11786, 11982, 12176, 12365,
    12551, 12733, 12911, 13085, 13255, 13421, 13583, 13741, 13894, 14044,
    14189, 14330, 14466, 14598, 14726, 14849, 14968, 15082, 15191, 15296,
    15396, 15491, 15582, 15668, 15749, 15826, 15897, 15964, 16026, 16083,
    16135, 16182, 16225, 16262, 16294, 16322, 16344, 16362, 16374, 16382,
    16384 >>

\* sine of d degrees, 0 <= d < 360
SinOf(d) ==
    IF d <= 90 THEN SinTable[d + 1]
    ELSE IF d <= 180 THEN SinTable[180 - d + 1]
    ELSE IF d <= 270 THEN 0 - SinTable[d - 180 + 1]
    ELSE 0 - SinTable[360 - d + 1]

Sin(deg) == SinOf(deg % 360)

Cos(deg) == Sin(deg + 90)

\* largest d in lo..hi with the direction (ax, ay) at or beyond d degrees
RECURSIVE FloorDeg(_, _, _, _)
RECURSIVE FloorDegAt(_, _, _, _, _)
FloorDeg(ax, ay, lo, hi) ==
    IF lo >= hi THEN lo
    ELSE FloorDegAt(ax, ay, lo, hi, (lo + hi + 1) \div 2)

FloorDegAt(ax, ay, lo, hi, mid) ==
    IF ay * Cos(mid) - ax * Sin(mid) >= 0
    THEN FloorDeg(ax, ay, mid, hi)
    ELSE FloorDeg(ax, ay, lo, mid - 1)

\* how near the direction (ax, ay) is to d degrees
Near(ax, ay, d) == ax * Cos(d) + ay * Sin(d)

NearestDeg(ax, ay, f) ==
    IF ax = 0 /\ ay = 0 THEN 0
    ELSE IF f < 90 /\ Near(ax, ay, f + 1) > Near(ax, ay, f) THEN f + 1
    ELSE f

\* the angle a of the first quadrant carried to the quadrant of (dx, dy)
Quadrant(dy, dx, a) ==
    IF dx >= 0 THEN (IF dy >= 0 THEN a ELSE 0 - a)
    ELSE (IF dy >= 0 THEN 180 - a ELSE a - 180)

PrincipalDeg(r) == IF r = -180 THEN -179 ELSE r

\* math.degrees(math.atan2(dy, dx)) to the nearest whole degree, in (-180, 180]
Atan2Deg(dy, dx) ==
    PrincipalDeg(Quadrant(dy, dx,
        NearestDeg(Abs(dx), Abs(dy), FloorDeg(Abs(dx), Abs(dy), 0, 90))))

\* ------------------------------------------------------------------------
\* QPointF / QRectF on the 2^-GeoBits pixel grid
\* ------------------------------------------------------------------------
Point(px, py) == [x |-> px, y |-> py]

\* QPointF(event.pos()): a widget position in whole pixels
PixelPoint(px, py) == Point(px * GeoUnit, py * GeoUnit)

Rect(rx, ry, rw, rh) == [x |-> rx, y |-> ry, w |-> rw, h |-> rh]

NullPoint == Point(0, 0)

NullRect == Rect(0, 0, 0, 0)

RectIsEmpty(r) == r.w <= 0 \/ r.h <= 0

RectCenter(r) == Point(r.x + r.w \div 2, r.y + r.h \div 2)

TopLeft(r) == Point(r.x, r.y)

TopRight(r) == Point(r.x + r.w, r.y)

BottomLeft(r) == Point(r.x, r.y + r.h)

BottomRight(r) == Point(r.x + r.w, r.y + r.h)

Midpoint(p, q) == Point((p.x + q.x) \div 2, (p.y + q.y) \div 2)

RectContains(r, p) ==
    /\ ~RectIsEmpty(r)
    /\ r.x <= p.x /\ p.x <= r.x + r.w
    /\ r.y <= p.y /\ p.y <= r.y + r.h

\* translate(c); rotate(deg); translate(-c), applied to p
RotateAbout(p, c, deg) ==
    Point(c.x + RoundDiv((p.x - c.x) * Cos(deg) - (p.y - c.y) * Sin(deg),
                         TrigUnit),
          c.y + RoundDiv((p.x - c.x) * Sin(deg) + (p.y - c.y) * Cos(deg),
                         TrigUnit))

\* ------------------------------------------------------------------------
\* TransformHandlesOverlay: handle geometry and hit-testing
\* ------------------------------------------------------------------------
handle_size == 16
rotation_handle_distance == 35
rotation_handle_size == 18
HitPadding == 4

HANDLE_NONE == "none"
HANDLE_TL == "tl"
HANDLE_TR == "tr"
HANDLE_BL == "bl"
HANDLE_BR == "br"
HANDLE_T == "t"
HANDLE_B == "b"
HANDLE_L == "l"
HANDLE_R == "r"
HANDLE_ROTATE == "rotate"
HANDLE_MOVE == "move"

CornerHandles == <<HANDLE_TL, HANDLE_TR, HANDLE_BL, HANDLE_BR>>

EdgeHandles == <<HANDLE_T, HANDLE_B, HANDLE_L, HANDLE_R>>

Range(seq) == {seq[i] : i \in 1..Len(seq)}

DrawnHandles == Range(CornerHandles) \cup Range(EdgeHandles) \cup {HANDLE_ROTATE}

Handles == DrawnHandles \cup {HANDLE_MOVE, HANDLE_NONE}

\* position of a handle on the unrotated box
UnrotatedPosition(b, k) ==
    CASE k = HANDLE_TL -> TopLeft(b)
      [] k = HANDLE_TR -> TopRight(b)
      [] k = HANDLE_BL -> BottomLeft(b)
      [] k = HANDLE_BR -> BottomRight(b)
      [] k = HANDLE_T -> Midpoint(TopLeft(b), TopRight(b))
      [] k = HANDLE_B -> Midpoint(BottomLeft(b), BottomRight(b))
      [] k = HANDLE_L -> Midpoint(TopLeft(b), BottomLeft(b))
      [] k = HANDLE_R -> Midpoint(TopRight(b), BottomRight(b))
      [] OTHER -> Point(b.x + b.w \div 2,
                        b.y - rotation_handle_distance * GeoUnit)

\* positions of the nine drawn handles; the empty map for empty bounds
get_handle_positions(b, rot) ==
    IF RectIsEmpty(b) THEN [k \in {} |-> NullPoint]
    ELSE [k \in DrawnHandles |->
            IF rot # 0
            THEN RotateAbout(UnrotatedPosition(b, k), RectCenter(b), rot)
            ELSE UnrotatedPosition(b, k)]

HitHalfSize(size) == (size * GeoUnit) \div 2 + HitPadding * GeoUnit

\* a square of half-side size/2 + padding around the handle centre
point_in_handle(point, handle_center, size) ==
    /\ Abs(point.x - handle_center.x) <= HitHalfSize(size)
    /\ Abs(point.y - handle_center.y) <= HitHalfSize(size)

point_in_rotated_bounds(point, b, rot) ==
    /\ ~RectIsEmpty(b)
    /\ RectContains(b, RotateAbout(point, RectCenter(b), 0 - rot))

FirstOf(list, hits) ==
    IF hits = {} THEN HANDLE_NONE
    ELSE list[CHOOSE i \in hits : \A j \in hits : i <= j]

\* first handle of the list whose hit area holds pos, or none
FirstHit(list, positions, pos) ==
    FirstOf(list, {i \in 1..Len(list) :
                      /\ list[i] \in DOMAIN positions
                      /\ point_in_handle(pos, positions[list[i]], handle_size)})

\* faulty variant: edges and the interior tested before the corners
HitPriority_corners_last(on_rotate, corner, edge, inside) ==
    IF on_rotate THEN HANDLE_ROTATE
    ELSE IF edge # HANDLE_NONE THEN edge
    ELSE IF inside THEN HANDLE_MOVE
    ELSE IF corner # HANDLE_NONE THEN corner
    ELSE HANDLE_NONE

\* the order of the tests of hit_test
HitPriority(on_rotate, corner, edge, inside) ==
    IF on_rotate THEN HANDLE_ROTATE
    ELSE IF corner # HANDLE_NONE THEN corner
    ELSE IF edge # HANDLE_NONE THEN edge
    ELSE IF inside THEN HANDLE_MOVE
    ELSE HANDLE_NONE

OnRotateHandle(positions, pos) ==
    /\ HANDLE_ROTATE \in DOMAIN positions
    /\ point_in_handle(pos, positions[HANDLE_ROTATE], rotation_handle_size)

HitAmong(positions, b, rot, pos) ==
    HitPriority(OnRotateHandle(positions, pos),
                FirstHit(CornerHandles, positions, pos),
                FirstHit(EdgeHandles, positions, pos),
                point_in_rotated_bounds(pos, b, rot))

\* faulty variant: hidden handles can still be hit
hit_test_when_hidden(visible, b, rot, pos) ==
    IF RectIsEmpty(b) THEN HANDLE_NONE
    ELSE HitAmong(get_handle_positions(b, rot), b, rot, pos)

hit_test(visible, b, rot, pos) ==
    IF ~visible \/ RectIsEmpty(b) THEN HANDLE_NONE
    ELSE HitAmong(get_handle_positions(b, rot), b, rot, pos)

\* ------------------------------------------------------------------------
\* State
\* ------------------------------------------------------------------------
VARIABLES
    \* CustomImageTab
    background_image,            \* TRUE when a background is loaded
    logo_image,                  \* NoImage or the size of the loaded logo
    rotation, zoom, offset_x, offset_y,
    logo_scale, logo_offset_x, logo_offset_y,
    active_layer,
    transform_start_zoom, transform_start_rotation,
    transform_start_logo_scale,
    scale_spinbox,               \* value shown in the percentage field
    update_timer,                \* TRUE while the debounce timer runs
    logo_opacity,                \* in percent, as the slider shows it
    platform_combo,              \* index of the selected combo item
    current_platform,            \* NoPlatform, a platform key or "custom"
    current_border,              \* NoBorder or the path of the border
    border_cache, border_mask_cache,            \* preview size
    border_cache_full, border_mask_cache_full,  \* 1024
    export_btn,                  \* TRUE while the export button is enabled
    export_file,                 \* the file at the export path
    export_canvas,               \* what the last export composed
    \* InteractiveImageView
    image_item,                  \* TRUE once a preview pixmap is shown
    pixmap,                      \* what the pixmap shown was composed of
    \* TransformHandlesOverlay
    bounds, overlay_rotation, handles_visible,
    hovered_handle, active_handle,
    drag_start_pos, drag_start_bounds, drag_start_rotation,
    lock_aspect_ratio,
    \* signals emitted while the last event was handled, in order
    emitted,
    \* scheduling and raster operations done while the last event was
    \* handled, in order
    ran,
    debounce,                    \* timer restarts since the timer was idle
    decoded,                     \* border decodes since the caches were cleared
    \* the event source
    buttons,                     \* mouse buttons held down
    last_event,                  \* the event handled last
    sessions,                    \* transform_started / _finished emitted so far
    drag_log,                    \* the move-handle deltas of the session
    events                       \* number of events handled

vars == <<background_image, logo_image, rotation, zoom, offset_x, offset_y,
          logo_scale, logo_offset_x, logo_offset_y, active_layer,
          transform_start_zoom, transform_start_rotation,
          transform_start_logo_scale, scale_spinbox, update_timer,
          image_item, bounds, overlay_rotation, handles_visible,
          hovered_handle, active_handle, drag_start_pos, drag_start_bounds,
          drag_start_rotation, lock_aspect_ratio, emitted, buttons,
          last_event, sessions, drag_log, events,
          logo_opacity, platform_combo, current_platform, current_border,
          border_cache, border_mask_cache,
          border_cache_full, border_mask_cache_full, export_btn,
          ran, debounce, decoded, pixmap, export_file, export_canvas>>

\* the program state as one record, so that nested handlers compose
State ==
    [background_image |-> background_image, logo_image |-> logo_image,
     rotation |-> rotation, zoom |-> zoom,
     offset_x |-> offset_x, offset_y |-> offset_y,
     logo_scale |-> logo_scale,
     logo_offset_x |-> logo_offset_x, logo_offset_y |-> logo_offset_y,
     active_layer |-> active_layer,
     transform_start_zoom |-> transform_start_zoom,
     transform_start_rotation |-> transform_start_rotation,
     transform_start_logo_scale |-> transform_start_logo_scale,
     scale_spinbox |-> scale_spinbox, update_timer |-> update_timer,
     image_item |-> image_item,
     bounds |-> bounds, overlay_rotation |-> overlay_rotation,
     handles_visible |-> handles_visible,
     hovered_handle |-> hovered_handle, active_handle |-> active_handle,
     drag_start_pos |-> drag_start_pos,
     drag_start_bounds |-> drag_start_bounds,
     drag_start_rotation |-> drag_start_rotation,
     lock_aspect_ratio |-> lock_aspect_ratio,
     logo_opacity |-> logo_opacity, platform_combo |-> platform_combo,
     current_platform |-> current_platform,
     current_border |-> current_border,
     border_cache |-> border_cache,
     border_mask_cache |-> border_mask_cache,
     border_cache_full |-> border_cache_full,
     border_mask_cache_full |-> border_mask_cache_full,
     export_btn |-> export_btn,
     pixmap |-> pixmap, export_file |-> export_file,
     export_canvas |-> export_canvas,
     emitted |-> <<>>, ran |-> <<>>]

\* number of emissions of a signal in a sequence of emissions
Count(seq, name) == Cardinality({i \in DOMAIN seq : seq[i].signal = name})

\* ------------------------------------------------------------------------
\* Borders and the refresh trace
\* ------------------------------------------------------------------------
\* the value None of current_border and of the four caches
NoBorder == "none"

PreviewPx == 512
ExportPx == 1024

\* the ghost counters stop counting here
MaxBurst == 2
MaxDecodes == 2

\* no pixmap was set yet
NoPixmap == [border |-> NoBorder]

\* one scheduling or raster operation: a timer restart, a run of the
\* pipeline, a decode of a border file at a size, the use of a raster or of
\* a mask derived from a border, the clearing of the caches
Op(op, size, border) == [op |-> op, size |-> size, border |-> border]

Ran(s, op, size, border) ==
    [s EXCEPT !.ran = Append(@, Op(op, size, border))]

\* number of operations op at a size in a sequence of operations
CountOp(seq, op, size) ==
    Cardinality({i \in DOMAIN seq : seq[i].op = op /\ seq[i].size = size})

\* timer restarts since the timer was idle; when the timer elapses,
\* coalesced is the number of restarts that its one run answers
DebounceAfter(seq, type) ==
    IF type = "timer"
    THEN [burst |-> 0, coalesced |-> debounce.burst]
    ELSE [burst |-> Min2(MaxBurst,
                         debounce.burst + CountOp(seq, "schedule", 0)),
          coalesced |-> 0]

\* decodes of the border file at each size since the caches were cleared,
\* and the border whose raster the clearing dropped
DecodedAfter(seq) ==
    IF CountOp(seq, "invalidate", 0) > 0
    THEN [preview |-> 0, full |-> 0,
          dropped |-> seq[CHOOSE i \in DOMAIN seq :
                              seq[i].op = "invalidate"].border]
    ELSE [preview |-> Min2(MaxDecodes, decoded.preview
                               + CountOp(seq, "decode", PreviewPx)),
          full |-> Min2(MaxDecodes, decoded.full
                            + CountOp(seq, "decode", ExportPx)),
          dropped |-> decoded.dropped]

\* the handler returns: its final state becomes the next state
\* the log of a session that starts with a press at pos
NewDragLog(pos) ==
    [press |-> pos, moved |-> [x |-> 0, y |-> 0],
     sum |-> [x |-> 0, y |-> 0], moves |-> 0]

\* the log after a position delta was emitted for the displacement from
\* start to pos
LoggedMove(log, start, pos, delta) ==
    [press |-> log.press,
     moved |-> [x |-> log.moved.x + (pos.x - start.x),
                y |-> log.moved.y + (pos.y - start.y)],
     sum |-> [x |-> log.sum.x + delta[1], y |-> log.sum.y + delta[2]],
     moves |-> log.moves + 1]

\* the log after an event at pos that emitted the signals seq
DragLogAfter(seq, pos) ==
    IF \E i \in DOMAIN seq : seq[i].signal = "transform_started"
    THEN NewDragLog(pos)
    ELSE IF \E i \in DOMAIN seq : seq[i].signal = "position_changed"
    THEN LoggedMove(drag_log, drag_start_pos, pos,
             seq[CHOOSE i \in DOMAIN seq :
                     seq[i].signal = "position_changed"].args)
    ELSE drag_log

Commit(s) ==
    \E r \in {s} :
        /\ background_image' = r.background_image
        /\ logo_image' = r.logo_image
        /\ rotation' = r.rotation
        /\ zoom' = r.zoom
        /\ offset_x' = r.offset_x
        /\ offset_y' = r.offset_y
        /\ logo_scale' = r.logo_scale
        /\ logo_offset_x' = r.logo_offset_x
        /\ logo_offset_y' = r.logo_offset_y
        /\ active_layer' = r.active_layer
        /\ transform_start_zoom' = r.transform_start_zoom
        /\ transform_start_rotation' = r.transform_start_rotation
        /\ transform_start_logo_scale' = r.transform_start_logo_scale
        /\ scale_spinbox' = r.scale_spinbox
        /\ update_timer' = r.update_timer
        /\ image_item' = r.image_item
        /\ bounds' = r.bounds
        /\ overlay_rotation' = r.overlay_rotation
        /\ handles_visible' = r.handles_visible
        /\ hovered_handle' = r.hovered_handle
        /\ active_handle' = r.active_handle
        /\ drag_start_pos' = r.drag_start_pos
        /\ drag_start_bounds' = r.drag_start_bounds
        /\ drag_start_rotation' = r.drag_start_rotation
        /\ lock_aspect_ratio' = r.lock_aspect_ratio
        /\ emitted' = r.emitted
        /\ sessions' =
               [started |-> sessions.started
                               + Count(r.emitted, "transform_started"),
                finished |-> sessions.finished
                                + Count(r.emitted, "transform_finished")]
        /\ drag_log' = DragLogAfter(r.emitted, last_event'.pos)
        /\ logo_opacity' = r.logo_opacity
        /\ platform_combo' = r.platform_combo
        /\ current_platform' = r.current_platform
        /\ current_border' = r.current_border
        /\ border_cache' = r.border_cache
        /\ border_mask_cache' = r.border_mask_cache
        /\ border_cache_full' = r.border_cache_full
        /\ border_mask_cache_full' = r.border_mask_cache_full
        /\ export_btn' = r.export_btn
        /\ pixmap' = r.pixmap
        /\ export_file' = r.export_file
        /\ export_canvas' = r.export_canvas
        /\ ran' = r.ran
        /\ debounce' = DebounceAfter(r.ran, last_event'.type)
        /\ decoded' = DecodedAfter(r.ran)

NoImage == [w |-> 0, h |-> 0]

Emit(s, name, args) ==
    [s EXCEPT !.emitted = Append(@, [signal |-> name, args |-> args])]

\* ------------------------------------------------------------------------
\* CustomImageTab: literals of the source
\* ------------------------------------------------------------------------
ZoomMin == Lit(1, 10)
ZoomMax == Lit(10, 1)
LogoScaleMin == Lit(5, 100)
LogoScaleMax == Lit(2, 1)
OffsetMin == Lit(0, 1)
OffsetMax == Lit(1, 1)
One == Lit(1, 1)
Half == Lit(1, 2)
WheelStep == Lit(5, 100)
arrow_key_step == Lit(5, 1000)
SpinboxMin == 1
SpinboxMax == 1000

\* max(lo, min(hi, v))
Clamp(lo, hi, v) == Max2(lo, Min2(hi, v))

\* QDoubleSpinBox.setValue with decimals 0 and range 1..1000
SpinboxSetValue(v) ==
    Max2(SpinboxMin, Min2(SpinboxMax, RoundDiv(v * 100, Unit)))

\* ------------------------------------------------------------------------
\* CustomImageTab: display refresh
\* ------------------------------------------------------------------------
\* a variant that lets the field's valueChanged write the shown value back
update_transform_info_unblocked(s) ==
    IF s.active_layer = "background"
    THEN [s EXCEPT !.scale_spinbox = SpinboxSetValue(s.zoom),
                   !.zoom = Lit(SpinboxSetValue(s.zoom), 100)]
    ELSE [s EXCEPT !.scale_spinbox = SpinboxSetValue(s.logo_scale),
                   !.logo_scale = Lit(SpinboxSetValue(s.logo_scale), 100)]

update_transform_info(s) ==
    IF s.active_layer = "background"
    THEN [s EXCEPT !.scale_spinbox = SpinboxSetValue(s.zoom)]
    ELSE [s EXCEPT !.scale_spinbox = SpinboxSetValue(s.logo_scale)]

\* the background box: the preview square scaled by zoom about the centre,
\* shifted by the offsets
BackgroundBounds(view_w, view_h, preview_size, bounds_size, ox, oy) ==
    Rect(view_w \div 2 - bounds_size \div 2
             - RoundDiv((ox - Half) * (bounds_size - preview_size), Unit),
         view_h \div 2 - bounds_size \div 2
             - RoundDiv((oy - Half) * (bounds_size - preview_size), Unit),
         bounds_size, bounds_size)

\* the logo box of size scaled_w x scaled_h placed by the logo offsets
LogoBounds(view_w, view_h, preview_size, scaled_w, scaled_h, ox, oy) ==
    Rect((view_w - preview_size) \div 2
             + RoundDiv((preview_size - scaled_w) * ox, Unit),
         (view_h - preview_size) \div 2
             + RoundDiv((preview_size - scaled_h) * oy, Unit),
         scaled_w, scaled_h)

\* the logo fitted in a square of side max_logo_dim, aspect ratio kept
FittedLogoBounds(view_w, view_h, preview_size, max_logo_dim, logo, ox, oy) ==
    LogoBounds(view_w, view_h, preview_size,
               IF logo.w >= logo.h THEN max_logo_dim
               ELSE RoundDiv(max_logo_dim * logo.w, logo.h),
               IF logo.w >= logo.h THEN RoundDiv(max_logo_dim * logo.h, logo.w)
               ELSE max_logo_dim,
               ox, oy)

handle_bounds_in(s, view_w, view_h, preview_size) ==
    IF s.active_layer = "background" /\ s.background_image
    THEN [s EXCEPT
            !.bounds = BackgroundBounds(view_w, view_h, preview_size,
                           RoundDiv(preview_size * s.zoom, Unit),
                           s.offset_x, s.offset_y),
            !.overlay_rotation = s.rotation,
            !.handles_visible = TRUE]
    ELSE IF s.active_layer = "logo" /\ s.logo_image # NoImage
    THEN [s EXCEPT
            !.bounds = FittedLogoBounds(view_w, view_h, preview_size,
                           RoundDiv(preview_size * s.logo_scale, Unit),
                           s.logo_image, s.logo_offset_x, s.logo_offset_y),
            !.overlay_rotation = 0,
            !.handles_visible = TRUE]
    ELSE [s EXCEPT !.handles_visible = FALSE]

update_handle_bounds(s) ==
    IF ViewW <= 0 \/ ViewH <= 0 THEN s
    ELSE handle_bounds_in(s, ViewW * GeoUnit, ViewH * GeoUnit,
                          Min2(ViewW, ViewH) * GeoUnit)

\* the border files on disk
BorderFiles ==
    {"borders/n64.png", "borders/psx.png", "custom1.png", "custom2.png"}

\* _do_update_preview, at the cache: the border is decoded and its mask
\* derived when the preview cache is empty
load_border_keeping_stale(s) ==
    IF s.border_cache # s.current_border
    THEN Ran([s EXCEPT !.border_cache = s.current_border,
                       !.border_mask_cache = s.current_border],
             "decode", PreviewPx, s.current_border)
    ELSE s

load_border(s) ==
    IF s.border_cache = NoBorder
    THEN Ran([s EXCEPT !.border_cache = s.current_border,
                       !.border_mask_cache = s.current_border],
             "decode", PreviewPx, s.current_border)
    ELSE s

\* the cached mask is multiplied into the alpha of the canvas and the
\* cached raster composited on top
composite_border(s) ==
    Ran(Ran(s, "mask", PreviewPx, s.border_mask_cache),
        "composite", PreviewPx, s.border_cache)

\* self.current_border and self.current_border.exists()
has_border(s) ==
    s.current_border # NoBorder /\ s.current_border \in BorderFiles

apply_border(s) ==
    IF has_border(s) THEN composite_border(load_border(s)) ELSE s

\* ------------------------------------------------------------------------
\* Layer geometry: the sizes and paste positions that _do_update_preview
\* and _export_image compute
\* ------------------------------------------------------------------------
\* the side of the canvas a background is loaded on
CanvasPx == 1024

\* the fraction bits of the significand of a Python float
DoubleFrac == 52

\* int(n / d) for d > 0: the fraction is dropped, towards zero
Trunc(n, d) == IF n >= 0 THEN n \div d ELSE 0 - ((0 - n) \div d)

\* math.ceil(n / d) and math.floor(n / d) for d > 0
CeilQ(n, d) == IF n >= 0 THEN (n + d - 1) \div d ELSE 0 - ((0 - n) \div d)

FloorQ(n, d) == IF n >= 0 THEN n \div d ELSE 0 - (((0 - n) + d - 1) \div d)

\* floor(log2(n / d)) for n, d > 0
RECURSIVE Log2Up(_, _, _)
Log2Up(n, d, a) == IF 2 * d <= n THEN Log2Up(n, 2 * d, a + 1) ELSE a

RECURSIVE Log2Down(_, _, _)
Log2Down(n, d, a) == IF n >= d THEN a ELSE Log2Down(2 * n, d, a - 1)

FloorLog2(n, d) ==
    IF n >= d THEN Log2Up(n, d, 0) ELSE Log2Down(2 * n, d, -1)

\* (r * 2^e) mod d, sixteen bits at a time
RECURSIVE ShiftMod(_, _, _)
ShiftMod(r, e, d) ==
    IF e < 16 THEN (r * 2 ^ e) % d
    ELSE ShiftMod((r * 2 ^ 16) % d, e - 16, d)

\* the remainder r of a significand, rounded to nearest: what the rounding
\* adds to the dividend
RoundingOf(r, d) == IF 2 * r > d THEN d - r ELSE 0 - r

\* the float m / d is (m * 2^e + QuotientError(m, d)) / (d * 2^e), where
\* e = DoubleFrac - FloorLog2(m, d)
QuotientError(m, d) ==
    RoundingOf(ShiftMod(m % d, DoubleFrac - FloorLog2(m, d), d), d)

\* the exponent of the spacing of the floats just below the integer k
SpacingBelow(k) ==
    IF k = 2 ^ (BitLen(k) - 1) THEN BitLen(k) - 2 ELSE BitLen(k) - 1

\* the float product l * (m / d), whose exact value is the integer k, is a
\* float below k: the quotient was rounded down by err, and l * err is
\* more than half the spacing of the floats below k; t is that spacing
\* relative to the unit of the quotient
RoundsBelow(l, d, err, t) ==
    /\ err < 0
    /\ IF t >= 0 THEN l * (0 - err) > d * 2 ^ t
       ELSE l * (0 - err) * 2 ^ (0 - t) > d

\* int(l * (m / d)) in float arithmetic
ScaledSide(l, m, d) ==
    IF m = 0 THEN 0
    ELSE IF (l * m) % d # 0 THEN (l * m) \div d
    ELSE IF RoundsBelow(l, d, QuotientError(m, d),
                        SpacingBelow((l * m) \div d) - FloorLog2(m, d) - 1)
    THEN (l * m) \div d - 1
    ELSE (l * m) \div d

\* a layer on a canvas: its size and the position it is pasted at
Box(w, h, x, y) == [w |-> w, h |-> h, x |-> x, y |-> y]

NoBox == Box(0, 0, 0, 0)

\* Image.rotate(expand=True) of a square of side size: the extent of the
\* rotated corners about the centre, outwards to whole pixels
rotated_size(size, deg) ==
    CeilQ(size * TrigUnit + size * (Abs(Cos(deg)) + Abs(Sin(deg))),
          2 * TrigUnit)
    - FloorQ(size * TrigUnit - size * (Abs(Cos(deg)) + Abs(Sin(deg))),
             2 * TrigUnit)

\* img.resize((int(w * self.zoom), int(h * self.zoom)))
zoomed_size(side, zoom_now) ==
    IF zoom_now # One THEN Trunc(side * zoom_now, Unit) ELSE side

\* _apply_transformations: the side of the transformed background
apply_transformations(s) ==
    zoomed_size(IF s.rotation # 0 THEN rotated_size(CanvasPx, s.rotation)
                ELSE CanvasPx,
                s.zoom)

\* paste_x = -int((img_w - size) * cx), paste_y likewise
paste_background(side, size, cx, cy) ==
    Box(side, side, 0 - Trunc((side - size) * cx, Unit),
        0 - Trunc((side - size) * cy, Unit))

\* a variant that pastes the background at its full size
preview_background_unscaled(s, side, preview_size) ==
    paste_background(side, preview_size, s.offset_x, s.offset_y)

\* _do_update_preview, layer 1: the transformed background is scaled by
\* preview_size / 1024.0 and pasted
preview_background(s, side, preview_size) ==
    paste_background(IF preview_size # CanvasPx
                     THEN Trunc(side * preview_size, CanvasPx) ELSE side,
                     preview_size, s.offset_x, s.offset_y)

\* _export_image, layer 1
export_background(s, side) ==
    paste_background(side, ExportPx, s.offset_x, s.offset_y)

\* max_logo_size = int(canvas_size * self.logo_scale)
max_logo_size(canvas_size, scale) == Trunc(canvas_size * scale, Unit)

\* paste_x = int(max_x * self.logo_offset_x), paste_y likewise
paste_logo(canvas_size, new_logo_w, new_logo_h, ox, oy) ==
    Box(new_logo_w, new_logo_h,
        Trunc((canvas_size - new_logo_w) * ox, Unit),
        Trunc((canvas_size - new_logo_h) * oy, Unit))

\* the logo fitted in the square of side max_size: scale_ratio is the
\* smaller of max_size / logo_w and max_size / logo_h
fit_logo(canvas_size, logo, max_size, ox, oy) ==
    paste_logo(canvas_size,
               ScaledSide(logo.w, max_size, Max2(logo.w, logo.h)),
               ScaledSide(logo.h, max_size, Max2(logo.w, logo.h)),
               ox, oy)

\* _composite_logo_on_canvas
composite_logo_on_canvas(s, canvas_size) ==
    fit_logo(canvas_size, s.logo_image,
             max_logo_size(canvas_size, s.logo_scale),
             s.logo_offset_x, s.logo_offset_y)

\* where the layers are pasted on the preview canvas
preview_layout(s) ==
    [background |-> IF s.background_image
                    THEN preview_background(s, apply_transformations(s),
                                            PreviewPx)
                    ELSE NoBox,
     logo |-> IF s.logo_image # NoImage
              THEN composite_logo_on_canvas(s, PreviewPx) ELSE NoBox]

\* where the layers are pasted on the export canvas
export_layout(s) ==
    [background |-> IF s.background_image
                    THEN export_background(s, apply_transformations(s))
                    ELSE NoBox,
     logo |-> IF s.logo_image # NoImage
              THEN composite_logo_on_canvas(s, ExportPx) ELSE NoBox]

\* the canvas: the layers with their transforms, under the mask and the
\* raster of the border
Canvas(s) ==
    [background_image |-> s.background_image, logo_image |-> s.logo_image,
     rotation |-> s.rotation, zoom |-> s.zoom,
     offset_x |-> s.offset_x, offset_y |-> s.offset_y,
     logo_scale |-> s.logo_scale, logo_offset_x |-> s.logo_offset_x,
     logo_offset_y |-> s.logo_offset_y, logo_opacity |-> s.logo_opacity,
     layout |-> preview_layout(s),
     mask |-> IF has_border(s) THEN s.border_mask_cache ELSE NoBorder,
     border |-> IF has_border(s) THEN s.border_cache ELSE NoBorder]

\* preview_view.set_image
set_image(s) == [s EXCEPT !.image_item = TRUE, !.pixmap = Canvas(s)]

\* except Exception: the failure is printed and the handler returns
caught(s) == Ran(s, "caught", 0, NoBorder)

\* logo_image.resize((new_logo_w, new_logo_h)) raises ValueError when a
\* side is zero
resize_raises(s, canvas_size) ==
    /\ s.logo_image # NoImage
    /\ \/ composite_logo_on_canvas(s, canvas_size).w <= 0
       \/ composite_logo_on_canvas(s, canvas_size).h <= 0

\* the raster is cached and its mask is not: ImageChops.multiply is given
\* None and raises
mask_missing(s) ==
    /\ has_border(s)
    /\ s.border_cache # NoBorder
    /\ s.border_mask_cache = NoBorder

\* a variant whose failure takes the frame off the screen
do_update_preview_clearing(s, ok) ==
    IF ~s.background_image /\ s.logo_image = NoImage THEN s
    ELSE IF ok /\ ~mask_missing(s) /\ ~resize_raises(s, PreviewPx)
    THEN update_handle_bounds(
             set_image(apply_border(Ran(s, "render", PreviewPx, NoBorder))))
    ELSE caught([Ran(s, "render", PreviewPx, NoBorder)
                    EXCEPT !.image_item = FALSE, !.pixmap = NoPixmap])

\* _do_update_preview: ok is whether the raster operations on the layers
\* succeed
do_update_preview(s, ok) ==
    IF ~s.background_image /\ s.logo_image = NoImage THEN s
    ELSE IF ok /\ ~mask_missing(s) /\ ~resize_raises(s, PreviewPx)
    THEN update_handle_bounds(
             set_image(apply_border(Ran(s, "render", PreviewPx, NoBorder))))
    ELSE caught(Ran(s, "render", PreviewPx, NoBorder))

\* the places of the border section where a raster operation can fail: the
\* derivation of the mask, after the raster was cached, and the compositing
\* of the cached pair
BorderStages == {"mask", "composite"}

fail_at_mask(s) ==
    IF s.border_cache = NoBorder
    THEN Ran([s EXCEPT !.border_cache = s.current_border],
             "decode", PreviewPx, s.current_border)
    ELSE s

\* _do_update_preview when the layers succeed and the border section
\* raises at a stage
do_update_preview_failing(s, stage) ==
    IF ~s.background_image /\ s.logo_image = NoImage THEN s
    ELSE IF ~has_border(s) \/ mask_missing(s) \/ resize_raises(s, PreviewPx)
    THEN caught(Ran(s, "render", PreviewPx, NoBorder))
    ELSE IF stage = "mask"
    THEN caught(fail_at_mask(Ran(s, "render", PreviewPx, NoBorder)))
    ELSE caught(load_border(Ran(s, "render", PreviewPx, NoBorder)))

\* a variant that runs the pipeline at once
schedule_update_now(s) == do_update_preview(s, TRUE)

schedule_update(s) ==
    Ran([s EXCEPT !.update_timer = TRUE], "schedule", 0, NoBorder)

\* ------------------------------------------------------------------------
\* CustomImageTab: transform handlers
\* ------------------------------------------------------------------------
on_transform_started(s) ==
    [s EXCEPT !.transform_start_zoom = s.zoom,
              !.transform_start_rotation = s.rotation,
              !.transform_start_logo_scale = s.logo_scale]

\* faulty variants: the product stored without the clamp
ScaleBackground_unclamped(baseline, scale_x) == FlMul(baseline, scale_x)

ScaleLogo_unclamped(baseline, scale_x) == FlMul(baseline, scale_x)

ScaleBackground(baseline, scale_x) ==
    Clamp(ZoomMin, ZoomMax, FlMul(baseline, scale_x))

ScaleLogo(baseline, scale_x) ==
    Clamp(LogoScaleMin, LogoScaleMax, FlMul(baseline, scale_x))

\* faulty variant: the factor applied to the current value
on_handle_scale_accumulating(s, scale_x, scale_y, ok) ==
    do_update_preview(update_transform_info(
        IF s.active_layer = "background"
        THEN [s EXCEPT !.zoom = ScaleBackground(s.zoom, scale_x)]
        ELSE [s EXCEPT !.logo_scale = ScaleLogo(s.logo_scale, scale_x)]), ok)

\* a variant that applies the factor of the axis that was dragged
on_handle_scale_dragged_axis(s, scale_x, scale_y, ok) ==
    do_update_preview(update_transform_info(
        IF s.active_layer = "background"
        THEN [s EXCEPT !.zoom =
                 ScaleBackground(s.transform_start_zoom,
                     IF scale_x = One THEN scale_y ELSE scale_x)]
        ELSE [s EXCEPT !.logo_scale =
                 ScaleLogo(s.transform_start_logo_scale,
                     IF scale_x = One THEN scale_y ELSE scale_x)]), ok)

on_handle_scale(s, scale_x, scale_y, ok) ==
    do_update_preview(update_transform_info(
        IF s.active_layer = "background"
        THEN [s EXCEPT !.zoom =
                 ScaleBackground(s.transform_start_zoom, scale_x)]
        ELSE [s EXCEPT !.logo_scale =
                 ScaleLogo(s.transform_start_logo_scale, scale_x)]), ok)

NormalizeRotation_none(r) == r

\* the two while loops of _on_handle_rotation
RECURSIVE NormalizeRotation(_)
NormalizeRotation(r) ==
    IF r > 180 THEN NormalizeRotation(r - 360)
    ELSE IF r < -180 THEN NormalizeRotation(r + 360)
    ELSE r

\* a variant that rotates whatever layer is active
on_handle_rotation_any_layer(s, angle_delta, ok) ==
    do_update_preview(update_transform_info(
        [s EXCEPT !.rotation = NormalizeRotation(
                      s.transform_start_rotation + angle_delta)]), ok)

on_handle_rotation(s, angle_delta, ok) ==
    IF s.active_layer = "background"
    THEN do_update_preview(update_transform_info(
             [s EXCEPT !.rotation = NormalizeRotation(
                           s.transform_start_rotation + angle_delta)]), ok)
    ELSE s

ClampOffset_none(v) == v

BackgroundDelta_abs(zoom_now, delta) == Abs(delta)

ClampOffset(v) == Clamp(OffsetMin, OffsetMax, v)

\* a variant that inverts at zoom 1.0 as well
BackgroundDelta_at_one(zoom_now, delta) ==
    IF zoom_now <= One THEN 0 - delta ELSE delta

\* the delta of a background offset: inverted when zoomed out
BackgroundDelta(zoom_now, delta) ==
    IF zoom_now < One THEN 0 - delta ELSE delta

on_handle_position(s, delta_x, delta_y, ok) ==
    do_update_preview(update_transform_info(
        IF s.active_layer = "background"
        THEN [s EXCEPT
                !.offset_x = ClampOffset(
                    FlAdd(s.offset_x, BackgroundDelta(s.zoom, delta_x))),
                !.offset_y = ClampOffset(
                    FlAdd(s.offset_y, BackgroundDelta(s.zoom, delta_y)))]
        ELSE [s EXCEPT
                !.logo_offset_x = ClampOffset(FlSub(s.logo_offset_x, delta_x)),
                !.logo_offset_y = ClampOffset(FlSub(s.logo_offset_y, delta_y))]),
        ok)

on_wheel_zoom(s, zoom_delta, ok) ==
    do_update_preview(update_transform_info(
        IF s.active_layer = "background"
        THEN [s EXCEPT !.zoom =
                 Clamp(ZoomMin, ZoomMax, FlAdd(s.zoom, zoom_delta))]
        ELSE [s EXCEPT !.logo_scale =
                 Clamp(LogoScaleMin, LogoScaleMax,
                       FlAdd(s.logo_scale, zoom_delta))]), ok)

on_scale_spinbox_changed(s, value, ok) ==
    do_update_preview(update_handle_bounds(
        IF s.active_layer = "background"
        THEN [s EXCEPT !.zoom = Lit(value, 100)]
        ELSE [s EXCEPT !.logo_scale = Lit(value, 100)]), ok)

\* a variant whose refresh of the scale field writes back
select_layer_writing_back(s, layer) ==
    update_handle_bounds(
        update_transform_info_unblocked([s EXCEPT !.active_layer = layer]))

select_layer(s, layer) ==
    update_handle_bounds(update_transform_info([s EXCEPT !.active_layer = layer]))

reset_background_adjustments(s) ==
    schedule_update(update_handle_bounds(update_transform_info(
        [s EXCEPT !.rotation = 0, !.zoom = One,
                  !.offset_x = Half, !.offset_y = Half])))

on_logo_opacity_changed(s, value) ==
    schedule_update([s EXCEPT !.logo_opacity = value])

\* QSlider.setValue: valueChanged is emitted when the value changes
set_opacity_slider(s, value) ==
    IF s.logo_opacity = value THEN s ELSE on_logo_opacity_changed(s, value)

reset_logo_adjustments(s) ==
    schedule_update(update_handle_bounds(update_transform_info(
        set_opacity_slider(
            [s EXCEPT !.logo_scale = Half, !.logo_offset_x = Half,
                      !.logo_offset_y = Half], 100))))

\* _reset_adjustments: both layers
reset_adjustments(s) ==
    reset_logo_adjustments(reset_background_adjustments(s))

\* a variant that resets both layers
reset_current_layer_both(s) == reset_adjustments(s)

reset_current_layer(s) ==
    IF s.active_layer = "background" THEN reset_background_adjustments(s)
    ELSE reset_logo_adjustments(s)

\* _check_export_ready: content and a border file that exists
check_export_ready(s) ==
    [s EXCEPT !.export_btn =
         /\ s.background_image \/ s.logo_image # NoImage
         /\ s.current_border # NoBorder
         /\ s.current_border \in BorderFiles]

upload_background(s) ==
    check_export_ready(schedule_update(select_layer(
        reset_background_adjustments([s EXCEPT !.background_image = TRUE]),
        "background")))

upload_logo(s, size) == schedule_update([s EXCEPT !.logo_image = size])

clear_background(s) ==
    check_export_ready(
        schedule_update([s EXCEPT !.background_image = FALSE]))

clear_logo(s) == schedule_update([s EXCEPT !.logo_image = NoImage])

\* ------------------------------------------------------------------------
\* CustomImageTab: border selection and export
\* ------------------------------------------------------------------------
\* the items of the platform combo box: "Select Platform..." and the
\* platforms that have a border file configured
NoPlatform == "none"

ItemData == <<NoPlatform, "gba", "n64", "psx">>

\* platforms_config: the border file of a platform; the file of gba is
\* not on disk
border_file(platform_key) ==
    IF platform_key = "n64" THEN "borders/n64.png"
    ELSE IF platform_key = "psx" THEN "borders/psx.png"
    ELSE "borders/gba.png"

clear_border_caches(s) ==
    Ran([s EXCEPT !.border_cache = NoBorder,
                  !.border_mask_cache = NoBorder,
                  !.border_cache_full = NoBorder,
                  !.border_mask_cache_full = NoBorder],
        "invalidate", 0, s.border_cache)

\* a variant that keeps the caches when the border changes
platform_border_keeps_cache(s, file) ==
    IF file \in BorderFiles
    THEN schedule_update([s EXCEPT !.current_border = file])
    ELSE [s EXCEPT !.current_border = NoBorder]

\* _on_platform_changed, for a platform with a border file
platform_border(s, file) ==
    IF file \in BorderFiles
    THEN schedule_update(clear_border_caches(
             [s EXCEPT !.current_border = file]))
    ELSE [s EXCEPT !.current_border = NoBorder]

on_platform_changed(s, index) ==
    IF ItemData[index + 1] = NoPlatform
    THEN check_export_ready([s EXCEPT !.current_platform = NoPlatform,
                                      !.current_border = NoBorder])
    ELSE check_export_ready(
             platform_border(
                 [s EXCEPT !.current_platform = ItemData[index + 1]],
                 border_file(ItemData[index + 1])))

\* QComboBox.setCurrentIndex: currentIndexChanged is emitted when the
\* index changes
set_current_index(s, index) ==
    IF s.platform_combo = index THEN s
    ELSE on_platform_changed([s EXCEPT !.platform_combo = index], index)

\* _import_custom_border, for a file that was chosen and accepted
import_custom_border(s, file) ==
    check_export_ready(schedule_update(clear_border_caches(
        set_current_index([s EXCEPT !.current_border = file,
                                    !.current_platform = "custom"], 0))))

\* QMessageBox.critical in the except branch of a handler
report_error(s) == Ran(s, "error", 0, NoBorder)

\* the canvas of an export: the layers at full resolution, under the mask
\* and the raster of the border decoded from its file
ExportCanvas(s) ==
    [Canvas(s) EXCEPT !.layout = export_layout(s),
                      !.mask = s.current_border,
                      !.border = s.current_border]

\* the export composite: the layers, then the border decoded from its file
export_composite(s) ==
    Ran(Ran(Ran([s EXCEPT !.export_canvas = ExportCanvas(s)],
                "decode", ExportPx, s.current_border),
            "mask", ExportPx, s.current_border),
        "composite", ExportPx, s.current_border)

\* a variant that keeps the border it decoded in the preview caches
export_image_caching(s, ok) ==
    IF ~s.export_btn THEN s
    ELSE IF ok /\ ~resize_raises(s, ExportPx)
    THEN Ran([export_composite(s) EXCEPT !.export_file = "complete",
                  !.border_cache = s.current_border,
                  !.border_mask_cache = s.current_border],
             "info", 0, NoBorder)
    ELSE report_error(s)

\* _export_image when the save dialog returns no path: if not file_path:
\* return
export_cancelled(s) == s

\* _export_image, for a path that was chosen: ok is whether the raster
\* operations on the layers succeed; the file is written whole
export_image(s, ok) ==
    IF ~s.export_btn THEN s
    ELSE IF ok /\ ~resize_raises(s, ExportPx)
    THEN Ran([export_composite(s) EXCEPT !.export_file = "complete"],
             "info", 0, NoBorder)
    ELSE report_error(s)

\* a variant that removes what a failed write left
export_write_fails_cleaning(s, removed) ==
    IF ~s.export_btn THEN s
    ELSE IF resize_raises(s, ExportPx) THEN report_error(s)
    ELSE report_error([export_composite(s) EXCEPT !.export_file = "absent"])

\* _export_image when result.save raises after it opened the file: the
\* file is truncated and partly written; removed is whether the imaging
\* library removed a file it had created itself
export_write_fails(s, removed) ==
    IF ~s.export_btn THEN s
    ELSE IF resize_raises(s, ExportPx) THEN report_error(s)
    ELSE report_error(
             [export_composite(s) EXCEPT !.export_file =
                  IF s.export_file = "absent" /\ removed THEN "absent"
                  ELSE "partial"])

\* a variant of a failed upload that drops the layer it could not replace
upload_logo_fails_dropping(s) ==
    report_error(schedule_update([s EXCEPT !.logo_image = NoImage]))

\* _upload_background, _upload_logo, _import_custom_border when
\* Image.open(file_path).convert("RGBA") raises
upload_background_fails(s) == report_error(s)

upload_logo_fails(s) == report_error(s)

import_custom_border_fails(s) == report_error(s)

\* ------------------------------------------------------------------------
\* TransformHandlesOverlay: gestures
\* ------------------------------------------------------------------------
LEFT == "left"
RIGHT == "right"

\* a handler's final state and whether it accepted (consumed) the event
Result(s, flag) == [st |-> s, accepted |-> flag]

overlay_hit_test(s, pos) ==
    hit_test(s.handles_visible, s.bounds, s.overlay_rotation, pos)

\* faulty variant: any button starts a transform
press_on_any_button(s, button, pos, hit) ==
    IF hit # HANDLE_NONE
    THEN Result(on_transform_started(Emit(
             [s EXCEPT !.active_handle = hit,
                       !.drag_start_pos = pos,
                       !.drag_start_bounds = s.bounds,
                       !.drag_start_rotation = s.overlay_rotation],
             "transform_started", <<>>)), TRUE)
    ELSE Result(s, FALSE)

\* mousePressEvent once the hit-test has answered hit
press_on(s, button, pos, hit) ==
    IF button = LEFT /\ hit # HANDLE_NONE
    THEN Result(on_transform_started(Emit(
             [s EXCEPT !.active_handle = hit,
                       !.drag_start_pos = pos,
                       !.drag_start_bounds = s.bounds,
                       !.drag_start_rotation = s.overlay_rotation],
             "transform_started", <<>>)), TRUE)
    ELSE Result(s, FALSE)

mousePressEvent(s, button, pos) ==
    press_on(s, button, pos, overlay_hit_test(s, pos))

\* scale_changed.emit(scale_x, scale_y), delivered to _on_handle_scale
emit_scale_changed(s, scale_x, scale_y, ok) ==
    on_handle_scale(Emit(s, "scale_changed", <<scale_x, scale_y>>),
                    scale_x, scale_y, ok)

\* rotation_changed.emit(angle_delta), delivered to _on_handle_rotation
emit_rotation_changed(s, angle_delta, ok) ==
    on_handle_rotation(Emit(s, "rotation_changed", <<angle_delta>>),
                       angle_delta, ok)

\* position_changed.emit(dx, dy), delivered to _on_handle_position
emit_position_changed(s, dx, dy, ok) ==
    on_handle_position(Emit(s, "position_changed", <<dx, dy>>), dx, dy, ok)

\* the corner opposite the dragged one
FixedCorner(handle, b) ==
    IF handle = HANDLE_TL THEN BottomRight(b)
    ELSE IF handle = HANDLE_TR THEN BottomLeft(b)
    ELSE IF handle = HANDLE_BL THEN TopRight(b)
    ELSE TopLeft(b)

Distance(p, q) == Hypot(p.x - q.x, p.y - q.y)

\* faulty variant: without the aspect lock only the x axis is scaled
corner_scale_by_lock(s, original_dist, current_dist, ok) ==
    IF original_dist > 0
    THEN emit_scale_changed(s, FlDiv(current_dist, original_dist),
             IF s.lock_aspect_ratio
             THEN FlDiv(current_dist, original_dist) ELSE One, ok)
    ELSE s

corner_scale_by(s, original_dist, current_dist, ok) ==
    IF original_dist > 0
    THEN emit_scale_changed(s, FlDiv(current_dist, original_dist),
                            FlDiv(current_dist, original_dist), ok)
    ELSE s

corner_scale_about(s, fixed, current_pos, ok) ==
    corner_scale_by(s, Distance(s.drag_start_pos, fixed),
                    Distance(current_pos, fixed), ok)

\* faulty variant: the fixed corner is taken from the bounds of now
handle_corner_scale_live(s, current_pos, ok) ==
    corner_scale_about(s, FixedCorner(s.active_handle, s.bounds),
                       current_pos, ok)

handle_corner_scale(s, current_pos, ok) ==
    corner_scale_about(s, FixedCorner(s.active_handle, s.drag_start_bounds),
                       current_pos, ok)

\* new half extent / original half extent, both in grid units
HalfExtentRatio(new_half, original_extent) ==
    FlScaled(2 * new_half, original_extent, FracBits)

\* faulty variant: the aspect lock is not looked at
edge_scale_to_one_axis(s, scale, horizontal, ok) ==
    emit_scale_changed(s,
        IF horizontal THEN scale ELSE One,
        IF ~horizontal THEN scale ELSE One, ok)

edge_scale_to(s, scale, horizontal, ok) ==
    emit_scale_changed(s,
        IF horizontal \/ s.lock_aspect_ratio THEN scale ELSE One,
        IF ~horizontal \/ s.lock_aspect_ratio THEN scale ELSE One, ok)

\* faulty variant: a pointer on the far side of the centre still scales
edge_scale_by_any_side(s, original_extent, new_half, horizontal, ok) ==
    IF original_extent > 0
    THEN edge_scale_to(s, HalfExtentRatio(new_half, original_extent),
                       horizontal, ok)
    ELSE s

edge_scale_by(s, original_extent, new_half, horizontal, ok) ==
    IF original_extent > 0 /\ new_half > 0
    THEN edge_scale_to(s, HalfExtentRatio(new_half, original_extent),
                       horizontal, ok)
    ELSE s

edge_scale_about(s, center, current_pos, ok) ==
    IF s.active_handle \in {HANDLE_L, HANDLE_R}
    THEN edge_scale_by(s, s.drag_start_bounds.w,
                       IF s.active_handle = HANDLE_R
                       THEN current_pos.x - center.x
                       ELSE center.x - current_pos.x, TRUE, ok)
    ELSE edge_scale_by(s, s.drag_start_bounds.h,
                       IF s.active_handle = HANDLE_B
                       THEN current_pos.y - center.y
                       ELSE center.y - current_pos.y, FALSE, ok)

handle_edge_scale(s, current_pos, ok) ==
    edge_scale_about(s, RectCenter(s.drag_start_bounds), current_pos, ok)

\* math.degrees(math.atan2(p.y - c.y, p.x - c.x))
AngleAbout(p, c) == Atan2Deg(p.y - c.y, p.x - c.x)

\* a pointer displacement as a fraction of the widget size
Normalized(d, widget_size) == FlScaled(d, widget_size * GeoUnit, FracBits)

\* faulty variant: the start point is not re-based
move_by_from_press(s, current_pos, widget_size, ok) ==
    IF widget_size > 0
    THEN emit_position_changed(s,
             0 - Normalized(current_pos.x - s.drag_start_pos.x, widget_size),
             0 - Normalized(current_pos.y - s.drag_start_pos.y, widget_size),
             ok)
    ELSE s

move_by(s, current_pos, widget_size, ok) ==
    IF widget_size > 0
    THEN [emit_position_changed(s,
              0 - Normalized(current_pos.x - s.drag_start_pos.x, widget_size),
              0 - Normalized(current_pos.y - s.drag_start_pos.y, widget_size),
              ok)
          EXCEPT !.drag_start_pos = current_pos]
    ELSE s

handle_drag(s, current_pos, ok) ==
    IF s.active_handle = HANDLE_ROTATE
    THEN emit_rotation_changed(s,
             AngleAbout(current_pos, RectCenter(s.drag_start_bounds))
                 - AngleAbout(s.drag_start_pos, RectCenter(s.drag_start_bounds)),
             ok)
    ELSE IF s.active_handle = HANDLE_MOVE
    THEN move_by(s, current_pos, Min2(ViewW, ViewH), ok)
    ELSE IF s.active_handle \in Range(CornerHandles)
    THEN handle_corner_scale(s, current_pos, ok)
    ELSE IF s.active_handle \in Range(EdgeHandles)
    THEN handle_edge_scale(s, current_pos, ok)
    ELSE s

\* hover: remember the handle under the pointer (and set the cursor)
update_hover(s, pos) ==
    [s EXCEPT !.hovered_handle = overlay_hit_test(s, pos)]

mouseMoveEvent(s, pos, ok) ==
    IF s.active_handle # HANDLE_NONE
    THEN Result(handle_drag(s, pos, ok), TRUE)
    ELSE Result(update_hover(s, pos), FALSE)

\* faulty variant: the transform is reported finished, the handle is kept
mouseReleaseEvent_keeps_handle(s, button) ==
    IF button = LEFT /\ s.active_handle # HANDLE_NONE
    THEN Result(Emit(s, "transform_finished", <<>>), TRUE)
    ELSE Result(s, FALSE)

mouseReleaseEvent(s, button) ==
    IF button = LEFT /\ s.active_handle # HANDLE_NONE
    THEN Result(Emit([s EXCEPT !.active_handle = HANDLE_NONE],
                     "transform_finished", <<>>), TRUE)
    ELSE Result(s, FALSE)

\* ------------------------------------------------------------------------
\* InteractiveImageView
\* ------------------------------------------------------------------------

\* eventFilter on the viewport; accepted is "the event was consumed"
eventFilter(s, type, button, pos, ok) ==
    IF type = "press"
    THEN IF overlay_hit_test(s, pos) # HANDLE_NONE
         THEN Result(mousePressEvent(s, button, pos).st, TRUE)
         ELSE Result(s, FALSE)
    ELSE IF type = "move"
    THEN IF s.active_handle # HANDLE_NONE
         THEN Result(mouseMoveEvent(s, pos, ok).st, TRUE)
         ELSE Result(update_hover(s, pos), FALSE)
    ELSE IF s.active_handle # HANDLE_NONE
         THEN Result(mouseReleaseEvent(s, button).st, TRUE)
         ELSE Result(s, FALSE)

\* Qt delivers a mouse event to the overlay, the topmost child of the
\* viewport; an event the overlay ignores (r.accepted is false) goes on to
\* the viewport, whose event filter sees it
propagate(r, type, button, pos, ok) ==
    IF r.accepted THEN r.st
    ELSE eventFilter(r.st, type, button, pos, ok).st

DeliverPress(s, button, pos) ==
    propagate(mousePressEvent(s, button, pos), "press", button, pos, TRUE)

DeliverMove(s, pos, ok) ==
    propagate(mouseMoveEvent(s, pos, ok), "move", LEFT, pos, ok)

DeliverRelease(s, button) ==
    propagate(mouseReleaseEvent(s, button), "release", button, NullPoint, TRUE)

wheelEvent(s, delta, ok) ==
    IF ~s.image_item THEN s
    ELSE on_wheel_zoom(
             Emit(s, "zoom_changed",
                  <<IF delta > 0 THEN WheelStep ELSE 0 - WheelStep>>),
             IF delta > 0 THEN WheelStep ELSE 0 - WheelStep, ok)

KeyDeltaX(key) ==
    IF key = "Left" THEN arrow_key_step
    ELSE IF key = "Right" THEN 0 - arrow_key_step ELSE 0

KeyDeltaY(key) ==
    IF key = "Up" THEN arrow_key_step
    ELSE IF key = "Down" THEN 0 - arrow_key_step ELSE 0

keyPressEvent(s, key, ok) ==
    IF ~s.image_item THEN s
    ELSE IF key \in {"Left", "Right", "Up", "Down"}
    THEN on_handle_position(
             Emit(s, "arrow_key_pressed", <<KeyDeltaX(key), KeyDeltaY(key)>>),
             KeyDeltaX(key), KeyDeltaY(key), ok)
    ELSE s

\* CustomImageTab.keyPressEvent: step = 0.01
tab_key_step == Lit(1, 100)

\* CustomImageTab.keyPressEvent, the key handler of the tab itself: without
\* a background the key goes to the base class; for an arrow key it calls
\* self._on_position_changed, which no class defines, so that the call
\* raises AttributeError before anything was changed
tab_keyPressEvent(s, key) ==
    IF ~s.background_image THEN s
    ELSE IF key \in {"Left", "Right", "Up", "Down"}
    THEN Ran(s, "raised", 0, NoBorder)
    ELSE s

\* ------------------------------------------------------------------------
\* Inputs
\* ------------------------------------------------------------------------
Buttons == {LEFT, RIGHT}

PointerPositions ==
    {PixelPoint(256, 256), PixelPoint(132, 132), PixelPoint(4, 4),
     PixelPoint(256, 93), PixelPoint(508, 256), PixelPoint(250, 250),
     PixelPoint(60, 60), PixelPoint(508, 508)}

WheelDeltas == {-120, 120}

SpinboxValues == {1, 5, 50, 100, 1000}

Keys == {"Left", "Right", "Up", "Down"}

LogoSizes == {[w |-> 200, h |-> 200], [w |-> 400, h |-> 100]}

Layers == {"background", "logo"}

\* what is remembered of an event: its kind, the button and position of a
\* mouse event, and for a pointer move the transform values it found
NoButton == "none"

NoBefore ==
    [zoom |-> 0, logo_scale |-> 0, rotation |-> 0,
     offset_x |-> 0, offset_y |-> 0, logo_offset_x |-> 0, logo_offset_y |-> 0,
     bounds |-> NullRect]

Before ==
    [zoom |-> zoom, logo_scale |-> logo_scale, rotation |-> rotation,
     offset_x |-> offset_x, offset_y |-> offset_y,
     logo_offset_x |-> logo_offset_x, logo_offset_y |-> logo_offset_y,
     bounds |-> bounds]

Event(type, button, pos, before) ==
    [type |-> type, button |-> button, pos |-> pos, before |-> before]

\* ------------------------------------------------------------------------
\* Specification
\* ------------------------------------------------------------------------
Init ==
    /\ background_image = FALSE
    /\ logo_image = NoImage
    /\ rotation = 0
    /\ zoom = One
    /\ offset_x = Half
    /\ offset_y = Half
    /\ logo_scale = Half
    /\ logo_offset_x = Half
    /\ logo_offset_y = Half
    /\ active_layer = "background"
    /\ transform_start_zoom = One
    /\ transform_start_rotation = 0
    /\ transform_start_logo_scale = Half
    /\ scale_spinbox = 100
    /\ update_timer = FALSE
    /\ image_item = FALSE
    /\ bounds = NullRect
    /\ overlay_rotation = 0
    /\ handles_visible = FALSE
    /\ hovered_handle = HANDLE_NONE
    /\ active_handle = HANDLE_NONE
    /\ drag_start_pos = NullPoint
    /\ drag_start_bounds = NullRect
    /\ drag_start_rotation = 0
    /\ lock_aspect_ratio = TRUE
    /\ emitted = <<>>
    /\ buttons = {}
    /\ last_event = Event("init", NoButton, NullPoint, NoBefore)
    /\ sessions = [started |-> 0, finished |-> 0]
    /\ drag_log = NewDragLog(NullPoint)
    /\ events = 0
    /\ logo_opacity = 100
    /\ platform_combo = 0
    /\ current_platform = NoPlatform
    /\ current_border = NoBorder
    /\ border_cache = NoBorder
    /\ border_mask_cache = NoBorder
    /\ border_cache_full = NoBorder
    /\ border_mask_cache_full = NoBorder
    /\ export_btn = FALSE
    /\ pixmap = NoPixmap
    /\ export_file = "absent"
    /\ export_canvas = NoPixmap
    /\ ran = <<>>
    /\ debounce = [burst |-> 0, coalesced |-> 0]
    /\ decoded = [preview |-> 0, full |-> 0, dropped |-> NoBorder]

\* one more input event, of at most n
Tick(n) ==
    /\ events < n
    /\ events' = events + 1

Step(e) == last_event' = e

MousePress(button, pos) ==
    /\ button \notin buttons
    /\ buttons' = buttons \cup {button}
    /\ Step(Event("press", button, pos, NoBefore))
    /\ Commit(DeliverPress(State, button, pos))

MouseMove(pos, ok) ==
    /\ UNCHANGED buttons
    /\ Step(Event("move", NoButton, pos, Before))
    /\ Commit(DeliverMove(State, pos, ok))

MouseRelease(button) ==
    /\ button \in buttons
    /\ buttons' = buttons \ {button}
    /\ Step(Event("release", button, NullPoint, NoBefore))
    /\ Commit(DeliverRelease(State, button))

Wheel(delta, ok) ==
    /\ UNCHANGED buttons
    /\ Step(Event("wheel", NoButton, NullPoint, NoBefore))
    /\ Commit(wheelEvent(State, delta, ok))

ArrowKey(key, ok) ==
    /\ UNCHANGED buttons
    /\ Step(Event("key", NoButton, NullPoint, Before))
    /\ Commit(keyPressEvent(State, key, ok))

TabArrowKey(key) ==
    /\ UNCHANGED buttons
    /\ Step(Event("tab_key", NoButton, NullPoint, Before))
    /\ Commit(tab_keyPressEvent(State, key))

ScaleSpinboxEdited(value, ok) ==
    /\ value # scale_spinbox
    /\ UNCHANGED buttons
    /\ Step(Event("spinbox", NoButton, NullPoint, NoBefore))
    /\ Commit(on_scale_spinbox_changed(
                  [State EXCEPT !.scale_spinbox = value], value, ok))

SelectLayer(layer) ==
    /\ UNCHANGED buttons
    /\ Step(Event("select_layer", NoButton, NullPoint, NoBefore))
    /\ Commit(select_layer(State, layer))

ResetTransform ==
    /\ UNCHANGED buttons
    /\ Step(Event("reset", NoButton, NullPoint, NoBefore))
    /\ Commit(reset_current_layer(State))

\* QFileDialog.getOpenFileName runs its own event loop until a file is
\* chosen: a button let go while the dialog is open is released into the
\* dialog, and the overlay is not told
FileDialog == buttons' \in SUBSET buttons

UploadBackground ==
    /\ FileDialog
    /\ Step(Event("upload_background", NoButton, NullPoint, NoBefore))
    /\ Commit(upload_background(State))

UploadLogo(size) ==
    /\ FileDialog
    /\ Step(Event("upload_logo", NoButton, NullPoint, NoBefore))
    /\ Commit(upload_logo(State, size))

ClearBackground ==
    /\ background_image
    /\ UNCHANGED buttons
    /\ Step(Event("clear_background", NoButton, NullPoint, NoBefore))
    /\ Commit(clear_background(State))

ClearLogo ==
    /\ logo_image # NoImage
    /\ UNCHANGED buttons
    /\ Step(Event("clear_logo", NoButton, NullPoint, NoBefore))
    /\ Commit(clear_logo(State))

LockAspectChanged ==
    /\ UNCHANGED buttons
    /\ Step(Event("lock_aspect", NoButton, NullPoint, NoBefore))
    /\ Commit([State EXCEPT !.lock_aspect_ratio = ~lock_aspect_ratio])

\* the debounce timer elapses: _do_update_preview
TimerFires(ok) ==
    /\ update_timer
    /\ UNCHANGED buttons
    /\ Step(Event("timer", NoButton, NullPoint, NoBefore))
    /\ Commit(do_update_preview([State EXCEPT !.update_timer = FALSE], ok))

OpacityChanged(value) ==
    /\ value # logo_opacity
    /\ UNCHANGED buttons
    /\ Step(Event("opacity", NoButton, NullPoint, NoBefore))
    /\ Commit(on_logo_opacity_changed(State, value))

PlatformChanged(index) ==
    /\ index # platform_combo
    /\ UNCHANGED buttons
    /\ Step(Event("platform", NoButton, NullPoint, NoBefore))
    /\ Commit(on_platform_changed(
                  [State EXCEPT !.platform_combo = index], index))

ImportCustomBorder(file) ==
    /\ FileDialog
    /\ Step(Event("import_border", NoButton, NullPoint, NoBefore))
    /\ Commit(import_custom_border(State, file))

ExportImage(ok) ==
    /\ export_btn
    /\ FileDialog
    /\ Step(Event("export", NoButton, NullPoint, NoBefore))
    /\ Commit(export_image(State, ok))

ExportWriteFails(removed) ==
    /\ export_btn
    /\ FileDialog
    /\ Step(Event("export", NoButton, NullPoint, NoBefore))
    /\ Commit(export_write_fails(State, removed))

ExportCancelled ==
    /\ export_btn
    /\ FileDialog
    /\ Step(Event("export_cancelled", NoButton, NullPoint, NoBefore))
    /\ Commit(export_cancelled(State))

UploadBackgroundFails ==
    /\ FileDialog
    /\ Step(Event("upload_background_failed", NoButton, NullPoint, NoBefore))
    /\ Commit(upload_background_fails(State))

UploadLogoFails ==
    /\ FileDialog
    /\ Step(Event("upload_logo_failed", NoButton, NullPoint, NoBefore))
    /\ Commit(upload_logo_fails(State))

ImportCustomBorderFails ==
    /\ FileDialog
    /\ Step(Event("import_border_failed", NoButton, NullPoint, NoBefore))
    /\ Commit(import_custom_border_fails(State))

\* the debounce timer elapses and the border section of the pipeline fails
TimerFiresBorderFails(stage) ==
    /\ update_timer
    /\ UNCHANGED buttons
    /\ Step(Event("timer", NoButton, NullPoint, NoBefore))
    /\ Commit(do_update_preview_failing(
                  [State EXCEPT !.update_timer = FALSE], stage))

Next ==
    \/ \E b \in Buttons, p \in PointerPositions :
           Tick(MaxEvents) /\ MousePress(b, p)
    \/ \E p \in PointerPositions, ok \in BOOLEAN :
           Tick(MaxEvents) /\ MouseMove(p, ok)
    \/ \E b \in Buttons : Tick(MaxEvents) /\ MouseRelease(b)
    \/ \E d \in WheelDeltas, ok \in BOOLEAN : Tick(MaxEvents) /\ Wheel(d, ok)
    \/ \E k \in Keys, ok \in BOOLEAN : Tick(MaxEvents) /\ ArrowKey(k, ok)
    \/ \E v \in SpinboxValues, ok \in BOOLEAN :
           Tick(MaxEvents) /\ ScaleSpinboxEdited(v, ok)
    \/ \E l \in Layers : Tick(MaxEvents) /\ SelectLayer(l)
    \/ Tick(MaxEvents) /\ ResetTransform
    \/ Tick(MaxEvents) /\ UploadBackground
    \/ \E z \in LogoSizes : Tick(MaxEvents) /\ UploadLogo(z)
    \/ Tick(MaxEvents) /\ ClearBackground
    \/ Tick(MaxEvents) /\ ClearLogo
    \/ Tick(MaxEvents) /\ LockAspectChanged
    \/ \E ok \in BOOLEAN : Tick(MaxEvents) /\ TimerFires(ok)

Spec == Init /\ [][Next]_vars

\* ------------------------------------------------------------------------
\* Rotation gestures: longer runs of fewer inputs.  The background is
\* loaded and shown at 50%, which brings the rotation handle inside the
\* viewport; the pointer visits the places where the handle lies at
\* rotations 0, -90 and 180.
\* ------------------------------------------------------------------------
MaxRotateEvents == 7

RotatePositions ==
    {PixelPoint(256, 93), PixelPoint(93, 256), PixelPoint(256, 419)}

NextRotate ==
    \/ Tick(MaxRotateEvents) /\ UploadBackground
    \/ \E ok \in BOOLEAN : Tick(MaxRotateEvents) /\ ScaleSpinboxEdited(50, ok)
    \/ \E p \in RotatePositions : Tick(MaxRotateEvents) /\ MousePress(LEFT, p)
    \/ \E p \in RotatePositions, ok \in BOOLEAN :
           Tick(MaxRotateEvents) /\ MouseMove(p, ok)
    \/ Tick(MaxRotateEvents) /\ MouseRelease(LEFT)

SpecRotate == Init /\ [][NextRotate]_vars

\* ------------------------------------------------------------------------
\* Refresh and borders: the inputs that schedule or run the pipeline, the
\* selection of a border, and the export
\* ------------------------------------------------------------------------
MaxRenderEvents == 6

OpacityValues == {50, 100}

CustomBorders == {"custom1.png", "custom2.png"}

NextRender ==
    \/ Tick(MaxRenderEvents) /\ UploadBackground
    \/ \E d \in WheelDeltas, ok \in BOOLEAN :
           Tick(MaxRenderEvents) /\ Wheel(d, ok)
    \/ \E ok \in BOOLEAN : Tick(MaxRenderEvents) /\ ScaleSpinboxEdited(50, ok)
    \/ \E v \in OpacityValues : Tick(MaxRenderEvents) /\ OpacityChanged(v)
    \/ Tick(MaxRenderEvents) /\ ResetTransform
    \/ Tick(MaxRenderEvents) /\ SelectLayer("logo")
    \/ \E i \in 0..(Len(ItemData) - 1) :
           Tick(MaxRenderEvents) /\ PlatformChanged(i)
    \/ \E f \in CustomBorders : Tick(MaxRenderEvents) /\ ImportCustomBorder(f)
    \/ \E ok \in BOOLEAN : Tick(MaxRenderEvents) /\ ExportImage(ok)
    \/ \E ok \in BOOLEAN : Tick(MaxRenderEvents) /\ TimerFires(ok)

SpecRender == Init /\ [][NextRender]_vars

\* ------------------------------------------------------------------------
\* Failures: renders, exports and uploads that fail, between the inputs
\* that load layers, change their transforms and select a border
\* ------------------------------------------------------------------------
MaxFailureEvents == 6

NextFailure ==
    \/ Tick(MaxFailureEvents) /\ UploadBackground
    \/ Tick(MaxFailureEvents) /\ UploadLogo([w |-> 400, h |-> 100])
    \/ Tick(MaxFailureEvents) /\ SelectLayer("logo")
    \/ \E ok \in BOOLEAN : Tick(MaxFailureEvents) /\ Wheel(120, ok)
    \/ \E i \in {0, 2} : Tick(MaxFailureEvents) /\ PlatformChanged(i)
    \/ Tick(MaxFailureEvents) /\ ImportCustomBorder("custom1.png")
    \/ \E ok \in BOOLEAN : Tick(MaxFailureEvents) /\ TimerFires(ok)
    \/ \E g \in BorderStages :
           Tick(MaxFailureEvents) /\ TimerFiresBorderFails(g)
    \/ \E ok \in BOOLEAN : Tick(MaxFailureEvents) /\ ExportImage(ok)
    \/ \E c \in BOOLEAN : Tick(MaxFailureEvents) /\ ExportWriteFails(c)
    \/ Tick(MaxFailureEvents) /\ ExportCancelled
    \/ Tick(MaxFailureEvents) /\ UploadBackgroundFails
    \/ Tick(MaxFailureEvents) /\ UploadLogoFails
    \/ Tick(MaxFailureEvents) /\ ImportCustomBorderFails

SpecFailure == Init /\ [][NextFailure]_vars

\* ------------------------------------------------------------------------
\* Geometry: both layers and a border are loaded and the transforms were
\* edited; the preview of that state was rendered.  The inputs are values
\* that the scale field and the position handlers store.
\* ------------------------------------------------------------------------
MaxGeometryEvents == 2

GeometryZooms == {Lit(10, 100), Lit(11, 100), One, Lit(110, 100)}

GeometryLogoScales == {Lit(5, 100), Lit(11, 100), Half, Lit(160, 100)}

GeometryOffsetsX == {0, Lit(78, 100), One}

GeometryOffsetsY == {Lit(25, 100), Half}

GeometryKeys == {"Left", "Up"}

\* the state before the render: the layers and the border as the uploads
\* and the import leave them, the transforms as edited
Loaded(z, ox, oy, ls, lox, loy, size) ==
    [background_image |-> TRUE, logo_image |-> size,
     rotation |-> 0, zoom |-> z, offset_x |-> ox, offset_y |-> oy,
     logo_scale |-> ls, logo_offset_x |-> lox, logo_offset_y |-> loy,
     active_layer |-> "background",
     transform_start_zoom |-> One, transform_start_rotation |-> 0,
     transform_start_logo_scale |-> Half,
     scale_spinbox |-> 100, update_timer |-> FALSE,
     image_item |-> FALSE,
     bounds |-> NullRect, overlay_rotation |-> 0, handles_visible |-> FALSE,
     hovered_handle |-> HANDLE_NONE, active_handle |-> HANDLE_NONE,
     drag_start_pos |-> NullPoint, drag_start_bounds |-> NullRect,
     drag_start_rotation |-> 0, lock_aspect_ratio |-> TRUE,
     logo_opacity |-> 100, platform_combo |-> 0,
     current_platform |-> "custom", current_border |-> "custom1.png",
     border_cache |-> NoBorder, border_mask_cache |-> NoBorder,
     border_cache_full |-> NoBorder, border_mask_cache_full |-> NoBorder,
     export_btn |-> FALSE,
     pixmap |-> NoPixmap, export_file |-> "absent",
     export_canvas |-> NoPixmap,
     emitted |-> <<>>, ran |-> <<>>]

\* the variables at a state r of the program, no event handled yet
InitAt(r) ==
    \E q \in {r} :
        /\ background_image = q.background_image
        /\ logo_image = q.logo_image
        /\ rotation = q.rotation
        /\ zoom = q.zoom
        /\ offset_x = q.offset_x
        /\ offset_y = q.offset_y
        /\ logo_scale = q.logo_scale
        /\ logo_offset_x = q.logo_offset_x
        /\ logo_offset_y = q.logo_offset_y
        /\ active_layer = q.active_layer
        /\ transform_start_zoom = q.transform_start_zoom
        /\ transform_start_rotation = q.transform_start_rotation
        /\ transform_start_logo_scale = q.transform_start_logo_scale
        /\ scale_spinbox = q.scale_spinbox
        /\ update_timer = q.update_timer
        /\ image_item = q.image_item
        /\ bounds = q.bounds
        /\ overlay_rotation = q.overlay_rotation
        /\ handles_visible = q.handles_visible
        /\ hovered_handle = q.hovered_handle
        /\ active_handle = q.active_handle
        /\ drag_start_pos = q.drag_start_pos
        /\ drag_start_bounds = q.drag_start_bounds
        /\ drag_start_rotation = q.drag_start_rotation
        /\ lock_aspect_ratio = q.lock_aspect_ratio
        /\ logo_opacity = q.logo_opacity
        /\ platform_combo = q.platform_combo
        /\ current_platform = q.current_platform
        /\ current_border = q.current_border
        /\ border_cache = q.border_cache
        /\ border_mask_cache = q.border_mask_cache
        /\ border_cache_full = q.border_cache_full
        /\ border_mask_cache_full = q.border_mask_cache_full
        /\ export_btn = q.export_btn
        /\ pixmap = q.pixmap
        /\ export_file = q.export_file
        /\ export_canvas = q.export_canvas
        /\ emitted = <<>>
        /\ ran = <<>>
        /\ buttons = {}
        /\ last_event = Event("init", NoButton, NullPoint, NoBefore)
        /\ sessions = [started |-> 0, finished |-> 0]
        /\ drag_log = NewDragLog(NullPoint)
        /\ events = 0
        /\ debounce = [burst |-> 0, coalesced |-> 0]
        /\ decoded = [preview |-> CountOp(q.ran, "decode", PreviewPx),
                      full |-> 0, dropped |-> NoBorder]

InitGeometry ==
    \E z \in GeometryZooms, ox \in GeometryOffsetsX, oy \in GeometryOffsetsY,
       ls \in GeometryLogoScales, lox \in GeometryOffsetsX,
       loy \in GeometryOffsetsY, size \in LogoSizes :
        InitAt(do_update_preview(update_transform_info(check_export_ready(
                   Loaded(z, ox, oy, ls, lox, loy, size))), TRUE))

NextGeometry ==
    \/ \E ok \in BOOLEAN : Tick(MaxGeometryEvents) /\ ExportImage(ok)
    \/ \E k \in GeometryKeys, ok \in BOOLEAN :
           Tick(MaxGeometryEvents) /\ ArrowKey(k, ok)
    \/ Tick(MaxGeometryEvents) /\ ResetTransform
    \/ \E ok \in BOOLEAN : Tick(MaxGeometryEvents) /\ TimerFires(ok)

SpecGeometry == InitGeometry /\ [][NextGeometry]_vars

\* ------------------------------------------------------------------------
\* Hit areas: presses around the rotation handle and the top-left corner
\* handle of a background shown at 50%
\* ------------------------------------------------------------------------
MaxHitEvents == 4

\* distances from a handle's anchor, in pixels: inside, on and outside the
\* hit areas of both sizes
HitOffsets == {-14, -13, -10, -9, 0, 9, 10, 13, 14}

HitPositions ==
    {PixelPoint(256 + dx, 93 + dy) : dx \in HitOffsets, dy \in HitOffsets}
        \cup {PixelPoint(128 + dx, 128 + dy) :
                  dx \in HitOffsets, dy \in HitOffsets}

NextHit ==
    \/ Tick(MaxHitEvents) /\ UploadBackground
    \/ \E ok \in BOOLEAN : Tick(MaxHitEvents) /\ ScaleSpinboxEdited(50, ok)
    \/ \E p \in HitPositions : Tick(MaxHitEvents) /\ MousePress(LEFT, p)
    \/ Tick(MaxHitEvents) /\ MouseRelease(LEFT)

SpecHit == Init /\ [][NextHit]_vars

\* ------------------------------------------------------------------------
\* Edge drags of the background: the aspect lock changes during the drag
\* ------------------------------------------------------------------------
MaxEdgeEvents == 5

\* on the top and the bottom handle of the background at zoom 1, and
\* between them and the centre
EdgePositions ==
    {PixelPoint(256, 4), PixelPoint(256, 508), PixelPoint(256, 64),
     PixelPoint(256, 128), PixelPoint(256, 448)}

NextEdge ==
    \/ Tick(MaxEdgeEvents) /\ UploadBackground
    \/ \E p \in EdgePositions : Tick(MaxEdgeEvents) /\ MousePress(LEFT, p)
    \/ \E p \in EdgePositions, ok \in BOOLEAN :
           Tick(MaxEdgeEvents) /\ MouseMove(p, ok)
    \/ Tick(MaxEdgeEvents) /\ MouseRelease(LEFT)
    \/ Tick(MaxEdgeEvents) /\ LockAspectChanged

SpecEdge == Init /\ [][NextEdge]_vars

\* ------------------------------------------------------------------------
\* Arrow keys, given to the view or to the tab
\* ------------------------------------------------------------------------
MaxKeyEvents == 4

NextKeys ==
    \/ Tick(MaxKeyEvents) /\ UploadBackground
    \/ \E ok \in BOOLEAN : Tick(MaxKeyEvents) /\ ScaleSpinboxEdited(50, ok)
    \/ \E k \in Keys, ok \in BOOLEAN : Tick(MaxKeyEvents) /\ ArrowKey(k, ok)
    \/ \E k \in Keys : Tick(MaxKeyEvents) /\ TabArrowKey(k)
    \/ \E ok \in BOOLEAN : Tick(MaxKeyEvents) /\ TimerFires(ok)

SpecKeys == Init /\ [][NextKeys]_vars

\* ------------------------------------------------------------------------
\* Logos of many shapes, at scales of the clamped range, when the upload
\* has scheduled the first render
\* ------------------------------------------------------------------------
MaxLogoEvents == 3

\* square, elongated either way, and a shape whose short side is one pixel
\* in exact arithmetic at the smallest scale on the preview canvas
LogoShapes ==
    {[w |-> 1, h |-> 1], [w |-> 200, h |-> 200], [w |-> 400, h |-> 100],
     [w |-> 1000, h |-> 10], [w |-> 10, h |-> 1000], [w |-> 1225, h |-> 49]}

LogoRangeScales == {LogoScaleMin, Lit(10, 100), Half, One, LogoScaleMax}

InitLogo ==
    \E size \in LogoShapes, ls \in LogoRangeScales :
        InitAt(update_transform_info(check_export_ready(
                   [Loaded(One, Half, Half, ls, Half, Half, size)
                        EXCEPT !.active_layer = "logo",
                               !.update_timer = TRUE])))

NextLogo ==
    \/ \E d \in WheelDeltas, ok \in BOOLEAN :
           Tick(MaxLogoEvents) /\ Wheel(d, ok)
    \/ Tick(MaxLogoEvents) /\ ResetTransform
    \/ \E ok \in BOOLEAN : Tick(MaxLogoEvents) /\ TimerFires(ok)
    \/ \E ok \in BOOLEAN : Tick(MaxLogoEvents) /\ ExportImage(ok)

SpecLogo == InitLogo /\ [][NextLogo]_vars

\* ------------------------------------------------------------------------
\* Properties
\* ------------------------------------------------------------------------
HasSignal(seq, name) == \E i \in DOMAIN seq : seq[i].signal = name

\* the arguments of the first emission of a signal
ArgsOf(seq, name) ==
    seq[CHOOSE i \in DOMAIN seq : seq[i].signal = name].args

\* v if it lies in [lo, hi], else the bound nearest to it
Nearest(lo, hi, v) == IF v < lo THEN lo ELSE IF v > hi THEN hi ELSE v

ZoomInRange(z) == ZoomMin <= z /\ z <= ZoomMax

LogoScaleInRange(v) == LogoScaleMin <= v /\ v <= LogoScaleMax

\* a handle scale event (factor f) or a wheel event (step f) has stored
\* the raw result brought to the range of the active layer, and has left
\* the other layer's scale alone
ScaleStored(raw_zoom, raw_logo_scale) ==
    IF active_layer' = "background"
    THEN /\ zoom' = Nearest(ZoomMin, ZoomMax, raw_zoom)
         /\ ZoomInRange(zoom')
         /\ logo_scale' = logo_scale
    ELSE /\ logo_scale' = Nearest(LogoScaleMin, LogoScaleMax, raw_logo_scale)
         /\ LogoScaleInRange(logo_scale')
         /\ zoom' = zoom

HandleScaleStep(f) ==
    ScaleStored(FlMul(transform_start_zoom, f),
                FlMul(transform_start_logo_scale, f))

WheelZoomStep(f) == ScaleStored(FlAdd(zoom, f), FlAdd(logo_scale, f))

ScaleEventStep ==
    /\ HasSignal(emitted', "scale_changed") =>
           HandleScaleStep(ArgsOf(emitted', "scale_changed")[1])
    /\ HasSignal(emitted', "zoom_changed") =>
           WheelZoomStep(ArgsOf(emitted', "zoom_changed")[1])
    /\ (HasSignal(emitted', "scale_changed")
            \/ HasSignal(emitted', "zoom_changed")) =>
           (ZoomInRange(zoom) /\ LogoScaleInRange(logo_scale) =>
                ZoomInRange(zoom') /\ LogoScaleInRange(logo_scale'))

\* C1: every handle scale event and every wheel zoom event stores, for the
\* active layer, the raw result clamped to the nearest bound of [0.1, 10.0]
\* (background) or [0.05, 2.0] (logo), and does not touch the other layer;
\* so both scales stay in range along any sequence of such events.
C1_ScaleEventsClamp == [][ScaleEventStep]_vars

\* a corner or edge drag of the background whose product falls below 0.1
\* has been stored as 0.1
C1_ClampedDragReached ==
    /\ HasSignal(emitted, "scale_changed")
    /\ active_layer = "background"
    /\ FlMul(transform_start_zoom, ArgsOf(emitted, "scale_changed")[1]) < ZoomMin
    /\ zoom = ZoomMin

\* C2: after a value is entered in the percentage field the scale of the
\* active layer lies in its range.
C2_SpinboxEntryInRange ==
    last_event.type = "spinbox" =>
        IF active_layer = "background" THEN ZoomInRange(zoom)
        ELSE LogoScaleInRange(logo_scale)

\* the sums a rotation gesture can form on the stored baseline: a delta
\* is the difference of two pointer angles, so it lies within one turn
RotationSums == {transform_start_rotation + d : d \in -359..359}

\* the value kept for a raw sum: within [-180, 180], a whole number of
\* turns away from the sum, and the sum itself when that is in the range
RotationStored(stored, raw) ==
    /\ stored \in -180..180
    /\ (stored - raw) % 360 = 0
    /\ raw \in -180..180 => stored = raw

RotationEvent ==
    HasSignal(emitted, "rotation_changed") /\ active_layer = "background"

\* What _on_handle_rotation does keep: a rotation event stores baseline +
\* delta brought into the closed range [-180, 180] by whole turns, -180
\* itself is kept as it is, and normalising twice changes nothing.
RotationInClosedRange ==
    /\ rotation \in -180..180
    /\ RotationEvent =>
           RotationStored(rotation,
               transform_start_rotation + ArgsOf(emitted, "rotation_changed")[1])
    /\ \A raw \in RotationSums :
           /\ RotationStored(NormalizeRotation(raw), raw)
           /\ NormalizeRotation(NormalizeRotation(raw)) = NormalizeRotation(raw)

\* a rotation event whose sum passed 180 has stored it one turn lower
RotationWrapReached ==
    /\ RotationEvent
    /\ transform_start_rotation + ArgsOf(emitted, "rotation_changed")[1] > 180
    /\ rotation = transform_start_rotation
                      + ArgsOf(emitted, "rotation_changed")[1] - 360

\* C3: after a rotation event the stored rotation lies in the half-open
\* range (-180, 180]: it is greater than -180 and at most 180.
C3_RotationInHalfOpenRange ==
    RotationEvent => -180 < rotation /\ rotation <= 180

OffsetInRange(v) == OffsetMin <= v /\ v <= OffsetMax

\* C4: the four normalized offsets lie in [0, 1] in every reachable state,
\* whatever position deltas the move handle and the arrow keys have sent,
\* on either layer and at any zoom.
C4_OffsetsInRange ==
    /\ OffsetInRange(offset_x)
    /\ OffsetInRange(offset_y)
    /\ OffsetInRange(logo_offset_x)
    /\ OffsetInRange(logo_offset_y)

\* a drag of the background by the move handle asked for an offset below
\* 0, and 0 has been stored
C4_ClampedMoveReached ==
    /\ last_event.type = "move"
    /\ HasSignal(emitted, "position_changed")
    /\ active_layer = "background"
    /\ FlAdd(last_event.before.offset_x,
             BackgroundDelta(zoom, ArgsOf(emitted, "position_changed")[1]))
           < OffsetMin
    /\ offset_x = OffsetMin

\* a position event (move-handle drag or arrow key) has just been handled
PositionEvent ==
    /\ last_event.type \in {"move", "key"}
    /\ HasSignal(emitted, "position_changed")
           \/ HasSignal(emitted, "arrow_key_pressed")

PositionArgs ==
    IF HasSignal(emitted, "position_changed")
    THEN ArgsOf(emitted, "position_changed")
    ELSE ArgsOf(emitted, "arrow_key_pressed")

\* what a delta adds to an offset of the active layer
AddedToOffset(d) ==
    IF active_layer = "background" THEN BackgroundDelta(zoom, d) ELSE 0 - d

OffsetsOf(r) ==
    IF active_layer = "background" THEN <<r.offset_x, r.offset_y>>
    ELSE <<r.logo_offset_x, r.logo_offset_y>>

\* the state after the opposite delta is applied next
SentBack ==
    on_handle_position(State, 0 - PositionArgs[1], 0 - PositionArgs[2], TRUE)

\* neither the addition that led from o0 to o1 nor the one that leads back
\* from o1 left [0, 1]
NoClampEngaged(o0, o1, added) ==
    /\ OffsetInRange(FlAdd(o0, added))
    /\ OffsetInRange(FlSub(o1, added))

\* the addition that led from o0 to o1 was not rounded
ExactlyAdded(o0, o1, added) == o1 - o0 = added

RestoredExactly(i) ==
    NoClampEngaged(OffsetsOf(last_event.before)[i], OffsetsOf(State)[i],
                   AddedToOffset(PositionArgs[i]))
        => OffsetsOf(SentBack)[i] = OffsetsOf(last_event.before)[i]

RestoredWithinRounding(i) ==
    NoClampEngaged(OffsetsOf(last_event.before)[i], OffsetsOf(State)[i],
                   AddedToOffset(PositionArgs[i]))
        => /\ Abs(OffsetsOf(SentBack)[i] - OffsetsOf(last_event.before)[i])
                  <= Ulp(OffsetsOf(State)[i])
           /\ ExactlyAdded(OffsetsOf(last_event.before)[i],
                           OffsetsOf(State)[i],
                           AddedToOffset(PositionArgs[i]))
                  => OffsetsOf(SentBack)[i] = OffsetsOf(last_event.before)[i]

Baseline ==
    <<transform_start_zoom, transform_start_rotation,
      transform_start_logo_scale>>

\* the baseline is taken when a transform starts and at no other time
BaselineStep ==
    IF HasSignal(emitted', "transform_started")
    THEN Baseline' = <<zoom, rotation, logo_scale>>
    ELSE Baseline' = Baseline

RotationEventStep(deg) ==
    IF active_layer' = "background"
    THEN RotationStored(rotation', transform_start_rotation + deg)
    ELSE rotation' = rotation

DragEventStep ==
    /\ BaselineStep
    /\ HasSignal(emitted', "scale_changed") =>
           HandleScaleStep(ArgsOf(emitted', "scale_changed")[1])
    /\ HasSignal(emitted', "rotation_changed") =>
           RotationEventStep(ArgsOf(emitted', "rotation_changed")[1])

\* C6: a scale event of a drag stores clamp(baseline * factor) and a
\* rotation event stores normalize(baseline + degrees), the baseline being
\* the value the layer had at the latest 'transform started': the value
\* before the event (earlier deltas, wheel zoom, numeric entry) plays no
\* part.
C6_DragUsesBaseline == [][DragEventStep]_vars

\* a scale event of a background drag found a zoom that was no longer the
\* baseline, and stored the product with the baseline, which is not the
\* product with the zoom it found
C6_StaleValueIgnoredReached ==
    /\ last_event.type = "move"
    /\ HasSignal(emitted, "scale_changed")
    /\ active_layer = "background"
    /\ last_event.before.zoom # transform_start_zoom
    /\ zoom = Nearest(ZoomMin, ZoomMax,
                  FlMul(transform_start_zoom,
                        ArgsOf(emitted, "scale_changed")[1]))
    /\ zoom # Nearest(ZoomMin, ZoomMax,
                  FlMul(last_event.before.zoom,
                        ArgsOf(emitted, "scale_changed")[1]))

Idle == active_handle = HANDLE_NONE

Signal(name) == [signal |-> name, args |-> <<>>]

DragStart == <<drag_start_pos, drag_start_bounds, drag_start_rotation>>

\* a press at pos that the hit-test resolves to hit, arriving in Idle
IdlePressStep(button, pos, hit) ==
    IF button = LEFT /\ hit # HANDLE_NONE
    THEN /\ active_handle' = hit
         /\ DragStart' = <<pos, bounds, overlay_rotation>>
         /\ bounds' = bounds
         /\ overlay_rotation' = overlay_rotation
         /\ emitted' = <<Signal("transform_started")>>
    ELSE /\ active_handle' = HANDLE_NONE
         /\ DragStart' = DragStart
         /\ emitted' = <<>>

PressStep ==
    last_event'.type = "press" /\ Idle =>
        IdlePressStep(last_event'.button, last_event'.pos,
                      overlay_hit_test(State, last_event'.pos))

\* C7: from Idle a left press on a handle h (hit-test other than none)
\* makes h the active handle, records the press position, a copy of the
\* bounds and the rotation, and emits 'transform started' once and nothing
\* else; a press that hits nothing, or with another button, leaves the
\* controller Idle, the snapshot as it was, and emits nothing.
C7_PressFromIdle == [][PressStep]_vars

\* a left press has just been accepted from Idle
C7_PressAcceptedReached ==
    /\ last_event.type = "press"
    /\ last_event.button = LEFT
    /\ active_handle # HANDLE_NONE
    /\ sessions = [started |-> 1, finished |-> 0]
    /\ drag_start_pos = last_event.pos
    /\ emitted = <<Signal("transform_started")>>

DeltaSignals == {"scale_changed", "rotation_changed", "position_changed"}

NoDelta(seq) == \A i \in DOMAIN seq : seq[i].signal \notin DeltaSignals

ReleaseStep ==
    /\ last_event'.type = "release" =>
           IF last_event'.button = LEFT /\ ~Idle
           THEN /\ active_handle' = HANDLE_NONE
                /\ emitted' = <<Signal("transform_finished")>>
           ELSE /\ active_handle' = active_handle
                /\ emitted' = <<>>
    /\ last_event'.type = "move" /\ Idle => NoDelta(emitted')
    /\ Idle /\ active_handle' # HANDLE_NONE =>
           /\ last_event'.type = "press"
           /\ HasSignal(emitted', "transform_started")

\* C8: a left release while Dragging clears the active handle and emits
\* 'transform finished' once; any other release emits nothing; while Idle
\* no pointer move emits a scale, rotation or position delta, and Idle is
\* left only by an accepted press.
C8_ReleaseEndsDrag == [][ReleaseStep]_vars

\* after a finished drag the pointer has moved over a handle and nothing
\* was emitted
C8_MoveAfterReleaseReached ==
    /\ last_event.type = "move"
    /\ sessions = [started |-> 1, finished |-> 1]
    /\ active_handle = HANDLE_NONE
    /\ hovered_handle # HANDLE_NONE
    /\ emitted = <<>>

\* 'transform started' and 'transform finished' have alternated so far,
\* beginning with 'transform started'
Alternated ==
    /\ sessions.finished <= sessions.started
    /\ sessions.started <= sessions.finished + 1
    /\ Idle <=> sessions.started = sessions.finished

\* while a session is active no step starts another one or takes the
\* snapshot again (the move handle alone re-bases its start point on its
\* own moves)
SessionStep ==
    ~Idle =>
        /\ ~HasSignal(emitted', "transform_started")
        /\ drag_start_bounds' = drag_start_bounds
        /\ drag_start_rotation' = drag_start_rotation
        /\ last_event'.type = "press" => drag_start_pos' = drag_start_pos

\* C9: at most one session at a time: 'transform started' and 'transform
\* finished' strictly alternate, beginning with 'transform started', and
\* while a session is active no second 'transform started' is emitted and
\* the drag-start snapshot is not replaced.
C9_OneSessionAtATime == []Alternated /\ [][SessionStep]_vars

\* the handles in the order of their priority
PriorityOrder == <<HANDLE_ROTATE>> \o CornerHandles \o EdgeHandles

HitProbes == PointerPositions

\* p lies in the hit area of the i-th handle of the priority order
InHitArea(positions, i, p) ==
    point_in_handle(p, positions[PriorityOrder[i]],
                    IF PriorityOrder[i] = HANDLE_ROTATE
                    THEN rotation_handle_size ELSE handle_size)

InInterior(p) == point_in_rotated_bounds(p, bounds, overlay_rotation)

InSomeArea(positions, kinds, p) ==
    \E i \in DOMAIN PriorityOrder :
        PriorityOrder[i] \in kinds /\ InHitArea(positions, i, p)

\* hit is what first-match-wins gives for p
FirstMatch(positions, p, hit) ==
    /\ \A i \in DOMAIN PriorityOrder :
           hit = PriorityOrder[i] <=>
               /\ InHitArea(positions, i, p)
               /\ \A j \in 1..(i - 1) : ~InHitArea(positions, j, p)
    /\ hit = HANDLE_MOVE <=>
           ~InSomeArea(positions, DrawnHandles, p) /\ InInterior(p)
    /\ hit = HANDLE_NONE <=>
           ~InSomeArea(positions, DrawnHandles, p) /\ ~InInterior(p)

\* a corner wins over the interior and over an edge
CornerWins(positions, p, hit) ==
    /\ InSomeArea(positions, Range(CornerHandles), p) /\ InInterior(p) =>
           hit \in Range(CornerHandles)
    /\ InSomeArea(positions, Range(CornerHandles), p)
           /\ InSomeArea(positions, Range(EdgeHandles), p) =>
           hit \in Range(CornerHandles)

PriorityAt(positions, p, hit) ==
    IF ~handles_visible \/ RectIsEmpty(bounds) THEN hit = HANDLE_NONE
    ELSE FirstMatch(positions, p, hit) /\ CornerWins(positions, p, hit)

\* C10: the hit-test answers with the first match in the order rotation
\* handle, corners tl tr bl br, edges t b l r, interior (move), else none;
\* a point in a corner's hit area that is also in the interior, or also in
\* an edge's hit area, resolves to a corner.
C10_HitPriority ==
    \A p \in HitProbes :
        PriorityAt(get_handle_positions(bounds, overlay_rotation), p,
                   overlay_hit_test(State, p))

CornerEdgeInterior(positions, p) ==
    /\ InSomeArea(positions, Range(CornerHandles), p)
    /\ InSomeArea(positions, Range(EdgeHandles), p)
    /\ InInterior(p)

\* the pointer has moved to a point of the interior that lies in the hit
\* areas of a corner and of an edge, and the corner is the hovered handle
C10_CornerOverEdgeReached ==
    /\ last_event.type = "move"
    /\ handles_visible
    /\ ~RectIsEmpty(bounds)
    /\ CornerEdgeInterior(get_handle_positions(bounds, overlay_rotation),
                          last_event.pos)
    /\ hovered_handle \in Range(CornerHandles)

NothingToHit == ~handles_visible \/ RectIsEmpty(bounds)

\* nothing is hit with the handles hidden, nor with empty bounds, each
\* taken alone with the other as the overlay has it
NoHitWhenHidden ==
    \A p \in HitProbes :
        /\ hit_test(FALSE, bounds, overlay_rotation, p) = HANDLE_NONE
        /\ hit_test(handles_visible, NullRect, overlay_rotation, p)
               = HANDLE_NONE
        /\ NothingToHit => overlay_hit_test(State, p) = HANDLE_NONE

\* a press that arrives with nothing to hit starts no session
HiddenPressStep ==
    last_event'.type = "press" /\ NothingToHit =>
        /\ emitted' = <<>>
        /\ active_handle' = active_handle
        /\ DragStart' = DragStart

\* C11: with the handles hidden or the bounds empty the hit-test answers
\* none at every pointer position, and a press in such a state starts no
\* drag session.
C11_NoHitWhenHidden == []NoHitWhenHidden /\ [][HiddenPressStep]_vars

\* a left press has landed inside the box the overlay still remembers
\* after its handles were hidden, and nothing happened
C11_HiddenPressReached ==
    /\ last_event.type = "press"
    /\ last_event.button = LEFT
    /\ ~handles_visible
    /\ point_in_rotated_bounds(last_event.pos, bounds, overlay_rotation)
    /\ active_handle = HANDLE_NONE
    /\ emitted = <<>>

\* the corner of box b diagonally opposite to corner handle h
OppositeCorner(h, b) ==
    Point(IF h \in {HANDLE_TL, HANDLE_BL} THEN b.x + b.w ELSE b.x,
          IF h \in {HANDLE_TL, HANDLE_TR} THEN b.y + b.h ELSE b.y)

ScaleSignal(sx, sy) == [signal |-> "scale_changed", args |-> <<sx, sy>>]

\* what a corner drag emits for distances d0 (press) and d1 (now)
CornerEmission(d0, d1) ==
    IF d0 > 0 THEN emitted = <<ScaleSignal(FlDiv(d1, d0), FlDiv(d1, d0))>>
    ELSE emitted = <<>>

CornerMove ==
    last_event.type = "move" /\ active_handle \in Range(CornerHandles)

\* C12: a move of a corner drag emits one scale event (s, s) with
\* s = d1 / d0, the distances of the current pointer and of the press
\* point from the corner of the drag-start bounds opposite the dragged
\* one, whatever the aspect lock; fixed corner (500,500), press (600,600),
\* pointer (700,700) give 2.0.
C12_CornerScaleUniform ==
    /\ CornerMove =>
           CornerEmission(
               Distance(drag_start_pos,
                        OppositeCorner(active_handle, drag_start_bounds)),
               Distance(last_event.pos,
                        OppositeCorner(active_handle, drag_start_bounds)))
    /\ FlDiv(Distance(PixelPoint(700, 700), PixelPoint(500, 500)),
             Distance(PixelPoint(600, 600), PixelPoint(500, 500)))
           = Lit(2, 1)

\* a corner drag with the aspect lock off has emitted the same factor,
\* other than 1, on both axes
C12_UnlockedCornerDragReached ==
    /\ CornerMove
    /\ ~lock_aspect_ratio
    /\ HasSignal(emitted, "scale_changed")
    /\ ArgsOf(emitted, "scale_changed")[1] = ArgsOf(emitted, "scale_changed")[2]
    /\ ArgsOf(emitted, "scale_changed")[1] # One

Horizontal(h) == h \in {HANDLE_L, HANDLE_R}

\* the extent of box b along the axis of edge handle h
ExtentAlong(h, b) == IF Horizontal(h) THEN b.w ELSE b.h

\* the distance of p from the centre c toward edge h
TowardEdge(h, c, p) ==
    CASE h = HANDLE_R -> p.x - c.x
      [] h = HANDLE_L -> c.x - p.x
      [] h = HANDLE_B -> p.y - c.y
      [] OTHER -> c.y - p.y

\* the event of an edge drag with ratio ratio
EdgeSignal(h, ratio) ==
    IF lock_aspect_ratio THEN ScaleSignal(ratio, ratio)
    ELSE IF Horizontal(h) THEN ScaleSignal(ratio, One)
    ELSE ScaleSignal(One, ratio)

\* what an edge drag emits for the full extent ext at press and the half
\* extent half1 now: the ratio half1 / (ext / 2)
EdgeEmission(h, ext, half1) ==
    IF ext > 0 /\ half1 > 0
    THEN emitted = <<EdgeSignal(h, FlScaled(2 * half1, ext, FracBits))>>
    ELSE emitted = <<>>

EdgeMove ==
    last_event.type = "move" /\ active_handle \in Range(EdgeHandles)

\* C13: a move of an edge drag emits s = half1 / half0 (half0 half the
\* drag-start extent along the dragged axis, half1 the distance of the
\* pointer from the drag-start centre toward the edge): (s, s) with the
\* aspect lock on, (s, 1) for left/right and (1, s) for top/bottom with
\* it off; width 200, centre 300, pointer 450 give 1.5.
C13_EdgeScale ==
    /\ EdgeMove =>
           EdgeEmission(active_handle,
               ExtentAlong(active_handle, drag_start_bounds),
               TowardEdge(active_handle, RectCenter(drag_start_bounds),
                          last_event.pos))
    /\ FlScaled(2 * (450 - 300), 200, FracBits) = Lit(3, 2)

\* an edge drag with the aspect lock off has scaled one axis and left the
\* other at 1
C13_UnlockedEdgeDragReached ==
    /\ EdgeMove
    /\ ~lock_aspect_ratio
    /\ HasSignal(emitted, "scale_changed")
    /\ ArgsOf(emitted, "scale_changed")[1] # One
    /\ ArgsOf(emitted, "scale_changed")[2] = One

LayerTransform ==
    <<zoom, logo_scale, rotation, offset_x, offset_y,
      logo_offset_x, logo_offset_y>>

\* the move to p of the drag now active has no positive reference
Degenerate(p) ==
    \/ /\ active_handle \in Range(CornerHandles)
       /\ Distance(drag_start_pos,
                   OppositeCorner(active_handle, drag_start_bounds)) = 0
    \/ /\ active_handle \in Range(EdgeHandles)
       /\ \/ ExtentAlong(active_handle, drag_start_bounds) <= 0
          \/ TowardEdge(active_handle, RectCenter(drag_start_bounds), p) <= 0

DegenerateMoveStep ==
    last_event'.type = "move" /\ Degenerate(last_event'.pos) =>
        /\ emitted' = <<>>
        /\ LayerTransform' = LayerTransform
        /\ active_handle' = active_handle
        /\ DragStart' = DragStart

\* the two handlers given a zero or negative reference return the state
\* they were given; the edge handler given a positive one emits a scale
DegenerateIgnored ==
    \A p \in HitProbes :
        /\ corner_scale_by(State, 0, Distance(p, drag_start_pos), TRUE) = State
        /\ edge_scale_by(State, 0, p.x, TRUE, TRUE) = State
        /\ edge_scale_by(State, drag_start_bounds.w, 0 - p.x, TRUE, TRUE)
               = State
        /\ edge_scale_by(State, drag_start_bounds.h, 0, FALSE, TRUE) = State
        /\ active_handle \in Range(EdgeHandles)
               /\ ~Degenerate(p) =>
               HasSignal(handle_edge_scale(State, p, TRUE).emitted,
                         "scale_changed")

\* C14: a move of a corner or edge drag whose reference distance or half
\* extent is zero or negative emits nothing, divides by nothing, changes
\* no layer transform field and leaves the session Dragging; a later move
\* with positive distances scales again.
C14_DegenerateMoveIgnored ==
    []DegenerateIgnored /\ [][DegenerateMoveStep]_vars

\* the pointer of an edge drag is on the far side of the centre: nothing
\* was emitted, the scale is as before, the drag is still on
C14_DegenerateEdgeMoveReached ==
    /\ EdgeMove
    /\ Degenerate(last_event.pos)
    /\ emitted = <<>>
    /\ zoom = last_event.before.zoom
    /\ logo_scale = last_event.before.logo_scale

WidgetSize == Min2(ViewW, ViewH)

\* -(d / widget size) for a displacement d of the pointer
PositionDelta(d) == 0 - FlScaled(d, WidgetSize * GeoUnit, FracBits)

PositionSignal(dx, dy) ==
    [signal |-> "position_changed", args |-> <<dx, dy>>]

\* a move to p of a move-handle drag emits the delta for the displacement
\* from the start point and makes p the start point
MoveDragStep ==
    last_event'.type = "move" /\ active_handle = HANDLE_MOVE =>
        /\ emitted' = <<PositionSignal(
               PositionDelta(last_event'.pos.x - drag_start_pos.x),
               PositionDelta(last_event'.pos.y - drag_start_pos.y))>>
        /\ drag_start_pos' = last_event'.pos

\* the largest rounding error of one emitted delta
DeltaRounding == Ulp(Unit - 1)

\* total is the sum of n emitted deltas and moved the sum of the
\* displacements they were emitted for: total = -moved / widget size, up
\* to the rounding of each delta
SumsTo(total, moved, n) ==
    Abs(total * WidgetSize * GeoUnit + moved * Unit)
        <= n * DeltaRounding * WidgetSize * GeoUnit

\* the displacements add up to the way from the press to the start point
\* of now, and the deltas to minus that way over the widget size
MoveDragSum ==
    drag_log.moves > 0 =>
        /\ drag_log.moved.x = drag_start_pos.x - drag_log.press.x
        /\ drag_log.moved.y = drag_start_pos.y - drag_log.press.y
        /\ SumsTo(drag_log.sum.x, drag_log.moved.x, drag_log.moves)
        /\ SumsTo(drag_log.sum.y, drag_log.moved.y, drag_log.moves)

\* with a widget of no size the handler returns the state it was given
NoSizeNoMove ==
    \A p \in HitProbes :
        /\ move_by(State, p, 0, TRUE) = State
        /\ move_by(State, p, -1, TRUE) = State

\* C15: each move of a move-handle drag emits the position delta
\* -(current - start) / min(w, h) and makes the current pointer the start
\* point, so the deltas of a drag sum to -(final - press) / min(w, h);
\* when min(w, h) <= 0 nothing is emitted and the start point stays.
C15_MoveDragIncremental ==
    [](MoveDragSum /\ NoSizeNoMove) /\ [][MoveDragStep]_vars

\* a move-handle drag has emitted two deltas and is away from its press
C15_TwoMovesReached ==
    /\ last_event.type = "move"
    /\ active_handle = HANDLE_MOVE
    /\ drag_log.moves = 2
    /\ drag_log.moved.x # 0
    /\ drag_start_pos = last_event.pos
    /\ drag_start_pos # drag_log.press

SnapshotHandles ==
    {HANDLE_ROTATE} \cup Range(CornerHandles) \cup Range(EdgeHandles)

\* while such a handle is dragged, a step that does not start a session
\* leaves the snapshot alone
SnapshotStep ==
    active_handle \in SnapshotHandles
        /\ ~HasSignal(emitted', "transform_started") =>
        DragStart' = DragStart

RotationSignal(deg) == [signal |-> "rotation_changed", args |-> <<deg>>]

\* the delta of a move to p is a function of the snapshot and p
DeltaFromSnapshot(p) ==
    IF active_handle = HANDLE_ROTATE
    THEN emitted = <<RotationSignal(
             AngleAbout(p, RectCenter(drag_start_bounds))
                 - AngleAbout(drag_start_pos, RectCenter(drag_start_bounds)))>>
    ELSE IF active_handle \in Range(CornerHandles)
    THEN CornerEmission(
             Distance(drag_start_pos,
                      OppositeCorner(active_handle, drag_start_bounds)),
             Distance(p, OppositeCorner(active_handle, drag_start_bounds)))
    ELSE EdgeEmission(active_handle,
             ExtentAlong(active_handle, drag_start_bounds),
             TowardEdge(active_handle, RectCenter(drag_start_bounds), p))

SnapshotMove ==
    last_event.type = "move" /\ active_handle \in SnapshotHandles

\* C16: during a rotate, corner or edge drag the drag-start pointer,
\* bounds and rotation keep the values taken at the press, although the
\* overlay's bounds and rotation are replaced after each delta, and each
\* delta is computed from that snapshot and the pointer alone.
C16_SnapshotKept ==
    [](SnapshotMove => DeltaFromSnapshot(last_event.pos))
        /\ [][SnapshotStep]_vars

\* a delta of a corner, edge or rotate drag has been emitted while the
\* overlay's bounds or rotation were no longer those of the snapshot, and
\* the start point is still the press point
C16_LiveBoundsReplacedReached ==
    /\ SnapshotMove
    /\ emitted # <<>>
    /\ bounds # last_event.before.bounds
    /\ last_event.before.bounds # drag_start_bounds
    /\ drag_start_pos = drag_log.press

\* ------------------------------------------------------------------------
\* The debounce
\* ------------------------------------------------------------------------
\* runs of the compositing pipeline, and restarts of the quiet-timer, while
\* an event was handled
Renders(seq) == CountOp(seq, "render", PreviewPx)

Restarts(seq) == CountOp(seq, "schedule", 0)

\* the events that change the transform of a layer: gesture deltas (from a
\* pointer move or an arrow key), wheel zoom, numeric scale entry, opacity,
\* reset
MutationEvents == {"move", "key", "wheel", "spinbox", "opacity", "reset"}

\* C17: a layer-transform mutation (gesture scale, rotation and position
\* deltas, wheel zoom, numeric scale entry, opacity, reset) only restarts
\* the quiet-timer: the compositing pipeline never runs inside its handler
C17_MutationsDebounced ==
    last_event.type \in MutationEvents => Renders(ran) = 0

\* what the code does: opacity and reset restart the timer and render
\* nothing; a wheel zoom, a numeric entry and a gesture delta that find a
\* layer to change run the pipeline at once and leave the timer alone
OnlyOpacityAndResetDebounced ==
    /\ last_event.type \in {"opacity", "reset"}
           => Renders(ran) = 0 /\ Restarts(ran) > 0 /\ update_timer
    /\ last_event.type \in {"move", "key", "wheel", "spinbox"}
           => Restarts(ran) = 0

\* the events whose handlers end in _schedule_update
ScheduleEvents ==
    {"opacity", "reset", "upload_background", "upload_logo",
     "clear_background", "clear_logo", "import_border"}

\* a scheduled update restarts the timer and runs nothing
Scheduled == last_event.type \in ScheduleEvents => Restarts(ran) > 0

ScheduledOnly == Restarts(ran) > 0 => Renders(ran) = 0 /\ update_timer

HasContent == background_image \/ logo_image # NoImage

\* the timer elapses once for the burst it answers; its run goes through
\* the pipeline when a layer is loaded
ElapsedOnce ==
    last_event.type = "timer"
        => /\ ~update_timer
           /\ debounce.burst = 0
           /\ debounce.coalesced >= 1
           /\ Restarts(ran) = 0
           /\ Renders(ran) = IF HasContent THEN 1 ELSE 0

\* the layers of a canvas and their transforms
LayersOf(s) == [Canvas(s) EXCEPT !.mask = NoBorder, !.border = NoBorder]

\* a timer step takes a pending burst, changes nothing of the model state,
\* and a pixmap it sets is the canvas of that state
TimerStep ==
    last_event'.type = "timer"
        => /\ update_timer
           /\ debounce.burst >= 1
           /\ debounce'.coalesced = debounce.burst
           /\ LayersOf(State') = LayersOf(State)
           /\ current_border' = current_border
           /\ pixmap' = pixmap \/ pixmap' = Canvas(State')

\* what the code does: the updates of a burst run nothing and the timer
\* elapses once, on the state of that moment
BurstCoalesced ==
    [](Scheduled /\ ScheduledOnly /\ ElapsedOnce) /\ [][TimerStep]_vars

\* the run of the timer goes through the pipeline, or there was never
\* anything on screen
TimerRenders ==
    last_event.type = "timer" => Renders(ran) = 1 \/ pixmap = NoPixmap

\* C18: a burst of k >= 1 scheduled updates, each before the timer of the
\* previous one has elapsed, produces exactly one pipeline run, after the
\* last update of the burst, which renders the model state as it is at
\* that moment
C18_BurstRendersLastState ==
    [](Scheduled /\ ScheduledOnly /\ TimerRenders) /\ [][TimerStep]_vars

\* the timer elapsed after a burst of two or more updates and its one run
\* set the pixmap of the state
BurstCoalescedReached ==
    /\ last_event.type = "timer"
    /\ debounce.coalesced >= 2
    /\ Renders(ran) = 1
    /\ pixmap = Canvas(State)

\* ------------------------------------------------------------------------
\* The border caches
\* ------------------------------------------------------------------------
\* a cached raster and its mask were derived from the selected border
CacheFresh ==
    /\ border_cache # NoBorder /\ has_border(State)
           => border_cache = current_border
              /\ border_mask_cache \in {NoBorder, current_border}
    /\ border_mask_cache # NoBorder => border_mask_cache = border_cache
    /\ border_cache_full # NoBorder /\ has_border(State)
           => border_cache_full = current_border
              /\ border_mask_cache_full = current_border

\* the masks and rasters used while the last event was handled
Composited ==
    {ran[i].border : i \in {j \in DOMAIN ran :
                                ran[j].op \in {"mask", "composite"}}}

\* a change of the selected border to one that renders apply leaves the
\* four caches empty
BorderChangeStep ==
    current_border' # current_border /\ has_border(State')
        => /\ border_cache' = NoBorder
           /\ border_mask_cache' = NoBorder
           /\ border_cache_full' = NoBorder
           /\ border_mask_cache_full' = NoBorder

\* a pixmap that a step sets has the mask and the raster of the selected
\* border, or none
NewPixmapStep ==
    pixmap' # pixmap
        => /\ pixmap'.border \in {NoBorder, current_border'}
           /\ pixmap'.mask = pixmap'.border
           /\ has_border(State') => pixmap'.border = current_border'

\* C19: a render never composites a cached border raster or mask derived
\* from a border other than the selected one: every change of the selected
\* border clears the caches before the next render that applies a border
C19_NoStaleBorder ==
    /\ [](CacheFresh /\ Composited \subseteq {current_border})
    /\ [][BorderChangeStep /\ NewPixmapStep]_vars

\* a render decoded and composited the selected border after the raster of
\* another border was dropped from the cache
C19_RederivedAfterChangeReached ==
    /\ Renders(ran) = 1
    /\ CountOp(ran, "decode", PreviewPx) = 1
    /\ Composited = {current_border}
    /\ pixmap.border = current_border
    /\ decoded.dropped \notin {NoBorder, current_border}

\* what the code does at the preview size: one decode between two
\* clearings, and a render that finds the cache set decodes nothing
PreviewDecodedOnce ==
    /\ decoded.preview <= 1
    /\ decoded.preview = (IF border_cache = NoBorder THEN 0 ELSE 1)

\* C20: between two invalidations the border raster is decoded and its mask
\* derived at most once per resolution, at the preview resolution and at
\* the export resolution (1024) alike
C20_DecodedOncePerResolution ==
    decoded.preview <= 1 /\ decoded.full <= 1

\* ------------------------------------------------------------------------
\* Failures
\* ------------------------------------------------------------------------
\* a render failed while the last event was handled
RenderFailed(seq) == CountOp(seq, "caught", 0) > 0

\* an error dialog was shown while the last event was handled
Reported(seq) == CountOp(seq, "error", 0) > 0

\* the frame on screen
Frame(s) == [image_item |-> s.image_item, pixmap |-> s.pixmap]

\* a failed render in a step of the timer leaves the frame, the layers,
\* their transforms and the border selection as they were
FailedTimerStep ==
    last_event'.type = "timer" /\ RenderFailed(ran')
        => /\ Frame(State') = Frame(State)
           /\ LayersOf(State') = LayersOf(State)
           /\ active_layer' = active_layer
           /\ current_border' = current_border
           /\ ~Reported(ran')

\* a failed render inside a wheel event leaves the frame and the border
\* selection as they were, and the event has the effect on the layers that
\* it has when the render succeeds
FailedWheelStep ==
    last_event'.type = "wheel" /\ RenderFailed(ran')
        => /\ Frame(State') = Frame(State)
           /\ \E d \in WheelDeltas :
                  LayersOf(State') = LayersOf(wheelEvent(State, d, TRUE))
           /\ active_layer' = active_layer
           /\ current_border' = current_border
           /\ ~Reported(ran')

\* C21: a raster failure during a preview render is caught inside that
\* render: the frame displayed before stays displayed, no transform field,
\* layer image or border selection changes, and the event that triggered
\* the render completes as it does when the render succeeds
C21_RenderFailureContained ==
    [][FailedTimerStep /\ FailedWheelStep]_vars

\* a render failed with a frame on screen that is not the frame of the
\* state
C21_FailedWithFrameReached ==
    /\ RenderFailed(ran)
    /\ image_item
    /\ pixmap # NoPixmap
    /\ pixmap # Canvas(State)

\* an export attempt ends in the summary dialog or in the error dialog
ExportSurfaced ==
    last_event.type = "export"
        => CountOp(ran, "info", 0) + CountOp(ran, "error", 0) = 1

\* C22: a failed export attempt, in the composite or in the write of the
\* file, is surfaced as an error and leaves no partial file at the export
\* path
C22_FailedExportLeavesNoPartialFile ==
    /\ ExportSurfaced
    /\ last_event.type = "export" /\ Reported(ran)
           => export_file # "partial"

\* what the code does: a failed composite leaves the file at the path as it
\* was
FailedCompositeStep ==
    /\ last_event'.type = "export"
    /\ Reported(ran')
    /\ CountOp(ran', "decode", ExportPx) = 0
    => export_file' = export_file

FailedCompositeKeepsFile == [][FailedCompositeStep]_vars

\* the uploads of a file that cannot be decoded
FailedUploads ==
    {"upload_background_failed", "upload_logo_failed", "import_border_failed"}

\* a failed upload shows the error dialog and leaves the layer images, every
\* transform field, the active layer and the border selection as they were
FailedUploadStep ==
    last_event'.type \in FailedUploads
        => /\ Reported(ran')
           /\ LayersOf(State') = LayersOf(State)
           /\ active_layer' = active_layer
           /\ current_border' = current_border
           /\ platform_combo' = platform_combo

\* C23: a failed upload (unreadable or corrupt background, logo or border
\* file) is reported and leaves the background image, the logo image, every
\* transform field, the active layer and the selected border exactly as
\* before the attempt
C23_FailedUploadKeepsState == [][FailedUploadStep]_vars

\* an upload failed over a state that has both layers, a changed transform
\* and a border
C23_FailedOverLoadedStateReached ==
    /\ last_event.type \in FailedUploads
    /\ background_image
    /\ logo_image # NoImage
    /\ zoom # One \/ logo_scale # Half
    /\ current_border # NoBorder

\* ------------------------------------------------------------------------
\* Defaults of the layer transforms
\* ------------------------------------------------------------------------
BackgroundDefaults(s) ==
    /\ s.rotation = 0
    /\ s.zoom = One
    /\ s.offset_x = Half
    /\ s.offset_y = Half

LogoDefaults(s) ==
    /\ s.logo_scale = Half
    /\ s.logo_offset_x = Half
    /\ s.logo_offset_y = Half
    /\ s.logo_opacity = 100

\* C24: a clear-layer action (clearBackground, clearLogo) resets the
\* transform of that layer to its defaults, whatever it was before
C24_ClearResetsTransform ==
    /\ last_event.type = "clear_background" => BackgroundDefaults(State)
    /\ last_event.type = "clear_logo" => LogoDefaults(State)

\* what the code does: a clear-layer action drops the image and changes no
\* transform field
ClearStep ==
    last_event'.type \in {"clear_background", "clear_logo"}
        => /\ LayersOf(State') =
                  [LayersOf(State) EXCEPT
                      !.background_image = background_image',
                      !.logo_image = logo_image']
           /\ background_image' =
                  (background_image /\ last_event'.type = "clear_logo")
           /\ last_event'.type = "clear_logo" => logo_image' = NoImage
           /\ last_event'.type = "clear_background"
                  => logo_image' = logo_image

ClearKeepsTransform == [][ClearStep]_vars

\* C25: immediately after a layer's image is loaded (setBackground,
\* setLogo) the transform of that layer holds its defaults, whatever
\* preceded the load
C25_LoadedWithDefaults ==
    /\ last_event.type = "upload_background" => BackgroundDefaults(State)
    /\ last_event.type = "upload_logo" => LogoDefaults(State)

\* what the code does: the background is loaded with its defaults, the
\* logo with whatever the logo fields held
BackgroundLoadedWithDefaults ==
    last_event.type = "upload_background"
        => BackgroundDefaults(State) /\ active_layer = "background"

LogoLoadStep ==
    last_event'.type = "upload_logo"
        => /\ logo_scale' = logo_scale
           /\ logo_offset_x' = logo_offset_x
           /\ logo_offset_y' = logo_offset_y
           /\ logo_opacity' = logo_opacity

LogoLoadKeepsTransform == [][LogoLoadStep]_vars

\* the transform fields of each layer
BackgroundFields(s) ==
    <<s.rotation, s.zoom, s.offset_x, s.offset_y>>

LogoFields(s) ==
    <<s.logo_scale, s.logo_offset_x, s.logo_offset_y, s.logo_opacity>>

\* what a reset must leave alone besides the other layer's transform
Selections(s) ==
    <<s.background_image, s.logo_image, s.active_layer, s.current_border,
      s.platform_combo>>

\* a reset of the active layer
ResetStep ==
    last_event'.type = "reset"
        => /\ Selections(State') = Selections(State)
           /\ active_layer = "background"
                  => BackgroundDefaults(State')
                     /\ LogoFields(State') = LogoFields(State)
           /\ active_layer = "logo"
                  => LogoDefaults(State')
                     /\ BackgroundFields(State') = BackgroundFields(State)

\* _reset_adjustments, from any state
ResetAll ==
    /\ BackgroundDefaults(reset_adjustments(State))
    /\ LogoDefaults(reset_adjustments(State))
    /\ Selections(reset_adjustments(State)) = Selections(State)

\* C26: resetActiveLayer restores every transform field of the active
\* layer to its default and leaves the transform fields of the other
\* layer, both images, the active-layer selection and the border selection
\* unchanged; resetAll restores the defaults of both layers
C26_ResetFrame == []ResetAll /\ [][ResetStep]_vars

\* the logo was reset from an opacity other than 100% while the background
\* keeps a zoom other than 1.0
C26_LogoResetReached ==
    /\ last_event.type = "reset"
    /\ active_layer = "logo"
    /\ Restarts(ran) = 2
    /\ LogoDefaults(State)
    /\ zoom # One

\* a switch of the active layer
SelectLayerStep ==
    last_event'.type = "select_layer"
        => /\ BackgroundFields(State') = BackgroundFields(State)
           /\ LogoFields(State') = LogoFields(State)
           /\ background_image' = background_image
           /\ logo_image' = logo_image
           /\ active_layer' \in Layers
           /\ State'.bounds = update_handle_bounds(State').bounds
           /\ State'.handles_visible
                  = update_handle_bounds(State').handles_visible

\* C27: switching the active layer changes no stored transform field of
\* either layer (rotation, scale, offsets, opacity), the refresh of the
\* numeric scale field included; it changes which layer later gestures
\* mutate and which bounds the handles use
C27_SelectLayerKeepsTransforms == [][SelectLayerStep]_vars

\* the layer was switched and the scale field now shows a value that is
\* not the stored scale of the layer it shows
C27_FieldRoundedReached ==
    /\ last_event.type = "select_layer"
    /\ zoom # logo_scale
    /\ active_layer = "background"
           => Lit(scale_spinbox, 100) # zoom
    /\ active_layer = "logo"
           => Lit(scale_spinbox, 100) # logo_scale

\* a rotation delta delivered while the logo is the active layer
LogoRotationStep ==
    active_layer = "logo" /\ HasSignal(emitted', "rotation_changed")
        => /\ BackgroundFields(State') = BackgroundFields(State)
           /\ LogoFields(State') = LogoFields(State)
           /\ Renders(ran') = 0
           /\ Restarts(ran') = 0
           /\ Frame(State') = Frame(State)

\* the handler, given any whole angle while the logo is active
LogoRotationIgnored ==
    active_layer = "logo"
        => \A deg \in {-360, -180, -90, -1, 0, 1, 90, 180, 360},
              ok \in BOOLEAN :
                  on_handle_rotation(State, deg, ok) = State

\* C28: the logo has no rotation: while the logo is the active layer a
\* rotation delta of any value changes no transform field of either layer,
\* the background rotation included, and triggers no render
C28_LogoHasNoRotation ==
    []LogoRotationIgnored /\ [][LogoRotationStep]_vars

\* the rotation handle of the logo was dragged and a rotation delta other
\* than 0 was delivered
C28_LogoRotationDraggedReached ==
    /\ active_layer = "logo"
    /\ logo_image # NoImage
    /\ active_handle = HANDLE_ROTATE
    /\ HasSignal(emitted, "rotation_changed")
    /\ ArgsOf(emitted, "rotation_changed")[1] # 0
    /\ rotation = 0

\* ------------------------------------------------------------------------
\* The inversion boundary of background position deltas
\* ------------------------------------------------------------------------
\* the offsets after a delta d was added to the offsets o
Moved(o, d) ==
    <<ClampOffset(FlAdd(o[1], d[1])), ClampOffset(FlAdd(o[2], d[2]))>>

Inverted(d) == <<0 - d[1], 0 - d[2]>>

BackgroundOffsets(r) == <<r.offset_x, r.offset_y>>

LogoOffsets(r) == <<r.logo_offset_x, r.logo_offset_y>>

\* C29: a background position delta has its sign inverted exactly when the
\* background zoom is strictly less than 1.0; at zoom 1.0 and above it is
\* added as it is.  Logo position deltas are not conditioned on zoom.
C29_InversionBelowOne ==
    PositionEvent =>
        /\ active_layer = "background" /\ last_event.before.zoom < One
               => BackgroundOffsets(State) =
                      Moved(BackgroundOffsets(last_event.before),
                            Inverted(PositionArgs))
        /\ active_layer = "background" /\ last_event.before.zoom >= One
               => BackgroundOffsets(State) =
                      Moved(BackgroundOffsets(last_event.before),
                            PositionArgs)
        /\ active_layer = "background"
               => LogoOffsets(State) = LogoOffsets(last_event.before)
        /\ active_layer = "logo"
               => /\ LogoOffsets(State) =
                         Moved(LogoOffsets(last_event.before),
                               Inverted(PositionArgs))
                  /\ BackgroundOffsets(State) =
                         BackgroundOffsets(last_event.before)

\* a delta other than 0 was added without inversion at zoom exactly 1.0,
\* where the inverted delta would have given another offset
C29_AddedAtZoomOneReached ==
    /\ PositionEvent
    /\ active_layer = "background"
    /\ last_event.before.zoom = One
    /\ zoom = One
    /\ BackgroundOffsets(State) # BackgroundOffsets(last_event.before)
    /\ BackgroundOffsets(State) #
           Moved(BackgroundOffsets(last_event.before),
                 Inverted(PositionArgs))

\* ------------------------------------------------------------------------
\* Resolution invariance of the layer geometry
\* ------------------------------------------------------------------------
\* the transform state and the assets that a canvas was composed of
Composed(c) ==
    [c EXCEPT !.layout = NoBox, !.mask = NoBorder, !.border = NoBorder]

\* the preview shown and the last export were composed of the same
\* transform state and the same assets
SameComposition ==
    /\ pixmap # NoPixmap
    /\ export_canvas # NoPixmap
    /\ Composed(pixmap) = Composed(export_canvas)

\* the size and the position of a box on the preview are one half of those
\* of a box on the export, within 2 preview pixels per coordinate
HalfOf(p, e) ==
    \A f \in {"w", "h", "x", "y"} : Abs(2 * p[f] - e[f]) <= 4

\* C30: for the same transform state and assets, the size and the paste
\* position of the background and of the logo on the 512 preview are one
\* half of those on the 1024 export, within 2 preview pixels per coordinate
C30_ResolutionInvariant ==
    SameComposition
        => /\ HalfOf(pixmap.layout.background,
                     export_canvas.layout.background)
           /\ HalfOf(pixmap.layout.logo, export_canvas.layout.logo)

\* reached: a preview and an export of one state in which truncation
\* shows: the background has an odd side on the export, and the logo,
\* wider than the canvas and pasted at a negative position, lies a whole
\* preview pixel off one half of its export position
C30_TruncationReached ==
    /\ SameComposition
    /\ export_canvas.layout.background.w % 2 = 1
    /\ 2 * pixmap.layout.background.w # export_canvas.layout.background.w
    /\ pixmap.layout.logo.x < 0
    /\ Abs(2 * pixmap.layout.logo.x - export_canvas.layout.logo.x) = 2

\* ------------------------------------------------------------------------
\* Hit areas
\* ------------------------------------------------------------------------
\* the anchor of a handle of the box shown
AnchorOf(k) == get_handle_positions(bounds, overlay_rotation)[k]

\* a press of the left button on the overlay with its handles shown
PressOnHandles ==
    /\ last_event.type = "press"
    /\ last_event.button = LEFT
    /\ handles_visible
    /\ ~RectIsEmpty(bounds)

\* the press started a drag of handle k
HitOn(k) == HasSignal(emitted, "transform_started") /\ active_handle = k

\* p lies within distance r of c
InCircle(p, c, r) ==
    (p.x - c.x) * (p.x - c.x) + (p.y - c.y) * (p.y - c.y) <= r * r

\* C31: a press is a rotation-handle hit exactly when its Euclidean
\* distance from the anchor of the rotation handle is at most
\* handle size / 2 + 4 px
C31_RotateHitIsCircular ==
    PressOnHandles
        => (HitOn(HANDLE_ROTATE)
                <=> InCircle(last_event.pos, AnchorOf(HANDLE_ROTATE),
                             HitHalfSize(rotation_handle_size)))

\* what holds: the rotation handle is hit exactly in the square of that
\* half-side about its anchor
RotateHitIsSquare ==
    PressOnHandles
        => (HitOn(HANDLE_ROTATE)
                <=> point_in_handle(last_event.pos, AnchorOf(HANDLE_ROTATE),
                                    rotation_handle_size))

\* what holds: a press in the square about the top-left corner that is not
\* a rotation-handle hit is a hit of that corner, and no press outside the
\* square is
CornerHitIsSquare ==
    PressOnHandles /\ ~HitOn(HANDLE_ROTATE)
        => (HitOn(HANDLE_TL)
                <=> point_in_handle(last_event.pos, AnchorOf(HANDLE_TL),
                                    handle_size))

\* ------------------------------------------------------------------------
\* Import of a custom border
\* ------------------------------------------------------------------------
\* C32: after an import the selected border is the imported file and the
\* platform is "custom", whatever the platform list showed before
C32_ImportSelectsCustom ==
    last_event.type = "import_border"
        => current_border \in CustomBorders /\ current_platform = "custom"

\* what holds: an import made while the platform list shows no platform
\* selects the imported file
ImportOverNoPlatform ==
    [][last_event'.type = "import_border" /\ platform_combo = 0
           => /\ current_border' \in CustomBorders
              /\ current_platform' = "custom"
              /\ platform_combo' = 0]_vars

\* an import made while a platform is selected ends with no border and no
\* platform: the reset of the list runs the handler of the list
ImportOverPlatform ==
    [][last_event'.type = "import_border" /\ platform_combo # 0
           => /\ current_border' = NoBorder
              /\ current_platform' = NoPlatform
              /\ platform_combo' = 0
              /\ ~export_btn']_vars

\* ------------------------------------------------------------------------
\* The preview caches as a pair
\* ------------------------------------------------------------------------
\* C33: the preview border cache and the preview mask cache are both empty
\* or both filled, also after a render in which the decoding of the border
\* or the derivation of its mask failed
C33_CachesPaired ==
    (border_cache = NoBorder) <=> (border_mask_cache = NoBorder)

\* what holds: the caches are unpaired only after a render that failed,
\* and from then on until the border is selected again
UnpairedOnlyByFailure ==
    [][C33_CachesPaired /\ ~C33_CachesPaired'
           => last_event'.type \in {"timer", "wheel"} /\ RenderFailed(ran')]_vars

\* what holds: while the raster is cached without its mask, every render
\* of the border fails and sets no pixmap
UnpairedRendersFail ==
    [][mask_missing(State) /\ CountOp(ran', "render", PreviewPx) > 0
           /\ has_border(State')
           => RenderFailed(ran') /\ pixmap' = pixmap]_vars

\* ------------------------------------------------------------------------
\* The export button
\* ------------------------------------------------------------------------
\* a layer is loaded and a border whose file exists is selected
ExportReady(s) ==
    (s.background_image \/ s.logo_image # NoImage) /\ has_border(s)

\* C34: export is enabled if and only if at least one layer is loaded and
\* a border whose file exists is selected
C34_ExportEnabledIffReady == export_btn <=> ExportReady(State)

\* what holds: the button is brought up to date by the operations that
\* end with _check_export_ready
ReadinessChecked ==
    last_event.type \in {"upload_background", "clear_background",
                         "platform", "import_border"}
        => C34_ExportEnabledIffReady

\* what holds: the button changes in no other step
ButtonKeptElsewhere ==
    [][last_event'.type \notin {"upload_background", "clear_background",
                                "platform", "import_border"}
           => export_btn' = export_btn]_vars


\* ------------------------------------------------------------------------
\* The frame after the timer
\* ------------------------------------------------------------------------
\* the run of the timer raised nothing
NoFailure == CountOp(ran, "caught", 0) = 0

\* a frame that shows a layer
ShowsArtwork(p) ==
    p # NoPixmap /\ (p.background_image \/ p.logo_image # NoImage)

\* C35: absent render failures, once the debounce timer has elapsed after
\* the last mutation the frame on screen is the composite of the layer
\* images and transforms of that moment; after the only remaining layer is
\* cleared the frame no longer shows the cleared artwork
C35_TimerShowsCurrent ==
    last_event.type = "timer" /\ NoFailure
        => IF HasContent THEN pixmap = Canvas(State)
           ELSE ~ShowsArtwork(pixmap)

\* what the code does: with a layer loaded the timer sets the frame of the
\* state
TimerShowsLoaded ==
    last_event.type = "timer" /\ NoFailure /\ HasContent
        => pixmap = Canvas(State)

\* what the code does: with no layer loaded the timer returns before the
\* pipeline and the frame stays as it was
TimerKeepsCleared ==
    [][last_event'.type = "timer" /\ ~HasContent' => pixmap' = pixmap]_vars

\* the only remaining layer was cleared, the timer elapsed and the frame
\* shows the cleared layer
ClearedArtworkShown ==
    last_event.type = "timer" /\ ~HasContent /\ ShowsArtwork(pixmap)

\* ------------------------------------------------------------------------
\* Handles of a cleared layer
\* ------------------------------------------------------------------------
\* the active layer has an image
ActiveLoaded ==
    IF active_layer = "background" THEN background_image
    ELSE logo_image # NoImage

\* C36: once the events are handled and no debounce tick is pending, the
\* transform handles are visible only if the active layer has an image, so
\* that no drag session starts on a layer whose image was cleared
C36_HandlesOnlyOnLoaded ==
    ~update_timer /\ handles_visible => ActiveLoaded

\* what the code does: a run of the pipeline that raised nothing hides the
\* handles of an active layer without image
RenderHidesHandles ==
    last_event.type = "timer" /\ NoFailure /\ HasContent /\ ~ActiveLoaded
        => ~handles_visible

\* what the code does: with no layer loaded the timer returns before the
\* bounds are updated and the handles stay as they were
TimerKeepsHandles ==
    [][last_event'.type = "timer" /\ ~HasContent'
           => handles_visible' = handles_visible]_vars

\* ------------------------------------------------------------------------
\* The vertical component of a scale event
\* ------------------------------------------------------------------------
\* the scale of the active layer and the baseline of its drag
ActiveScale == IF active_layer = "background" THEN zoom ELSE logo_scale

ActiveBaseline ==
    IF active_layer = "background" THEN transform_start_zoom
    ELSE transform_start_logo_scale

ActiveClamp(v) ==
    IF active_layer = "background" THEN Nearest(ZoomMin, ZoomMax, v)
    ELSE Nearest(LogoScaleMin, LogoScaleMax, v)

\* a step that emitted scale_changed(sx, sy) stored clamp(baseline * sx),
\* and the clamped baseline itself when sx is 1.0
HorizontalOnlyStep ==
    HasSignal(emitted', "scale_changed") =>
        /\ ActiveScale' = ActiveClamp(FlMul(ActiveBaseline,
                               ArgsOf(emitted', "scale_changed")[1]))
        /\ ArgsOf(emitted', "scale_changed")[1] = One
               => ActiveScale' = ActiveClamp(ActiveBaseline)

\* factors given for the vertical component
VerticalFactors == {Lit(1, 2), One, Lit(3, 2)}

\* the handler given (sx, sy) stores what it stores given (sx, 1.0)
VerticalIgnored ==
    \A sx, sy \in VerticalFactors :
        /\ on_handle_scale(State, sx, sy, TRUE).zoom
               = on_handle_scale(State, sx, One, TRUE).zoom
        /\ on_handle_scale(State, sx, sy, TRUE).logo_scale
               = on_handle_scale(State, sx, One, TRUE).logo_scale

\* C37: only the horizontal component of a scale event is applied: after
\* a scale event (sx, sy) the scale of the active layer is
\* clamp(baseline * sx) for every sy, so that the drag of a top or bottom
\* edge with the aspect lock off, which emits (1.0, s), sets the scale to
\* the clamped baseline of the drag
C37_HorizontalComponentOnly ==
    []VerticalIgnored /\ [][HorizontalOnlyStep]_vars

\* a top or bottom edge was dragged with the aspect lock off: (1.0, s)
\* with s other than 1 was emitted and the scale went from the value an
\* earlier move of the drag had given it back to the clamped baseline
C37_VerticalDragReached ==
    /\ last_event.type = "move"
    /\ active_handle \in {HANDLE_T, HANDLE_B}
    /\ ~lock_aspect_ratio
    /\ HasSignal(emitted, "scale_changed")
    /\ ArgsOf(emitted, "scale_changed")[1] = One
    /\ ArgsOf(emitted, "scale_changed")[2] # One
    /\ ActiveScale = ActiveClamp(ActiveBaseline)
    /\ last_event.before.zoom # zoom

\* ------------------------------------------------------------------------
\* What an export leaves alone
\* ------------------------------------------------------------------------
\* the layer images, the transform fields, the active layer, the border
\* selection and the preview caches of the border
Artwork ==
    <<background_image, logo_image, rotation, zoom, offset_x, offset_y,
      logo_scale, logo_offset_x, logo_offset_y, logo_opacity, active_layer,
      current_platform, current_border, border_cache, border_mask_cache>>

ExportAttempt(type) == type \in {"export", "export_cancelled"}

ExportStep == ExportAttempt(last_event'.type) => Artwork' = Artwork

\* C38: an export attempt, whether it succeeds, fails or is cancelled at
\* the file prompt, changes no layer image, no transform field, not the
\* active layer, not the border selection and not the preview caches of
\* the border
C38_ExportChangesNothing == [][ExportStep]_vars

\* an export of a background under a border was written before the
\* preview had decoded the border
C38_ExportBeforePreview ==
    /\ last_event.type = "export"
    /\ export_file = "complete"
    /\ background_image
    /\ has_border(State)
    /\ border_cache = NoBorder

\* ------------------------------------------------------------------------
\* Arrow keys handled by the tab
\* ------------------------------------------------------------------------
Raised(seq) == CountOp(seq, "raised", 0) > 0

\* v moved by the step one way or the other, within [0, 1]
SteppedFrom(v) ==
    {ClampOffset(FlAdd(v, tab_key_step)), ClampOffset(FlSub(v, tab_key_step))}

TabKeyShifts ==
    last_event'.type = "tab_key" /\ background_image =>
        /\ \/ offset_x' \in SteppedFrom(offset_x) /\ offset_y' = offset_y
           \/ offset_y' \in SteppedFrom(offset_y) /\ offset_x' = offset_x
        /\ ~Raised(ran')

\* C39: with a background loaded, an arrow key handled by the key handler
\* of the tab shifts the background offset by a step of 0.01 along the
\* axis of the key, within [0, 1], and raises no error
C39_TabArrowKeyShifts == [][TabKeyShifts]_vars

\* what the code does: the handler raises and no transform field changes
TabKeyRaises ==
    [][last_event'.type = "tab_key" /\ background_image
           => Raised(ran') /\ LayerTransform' = LayerTransform]_vars

\* what the code does: without a background the key is left to the base
\* class
TabKeyPassed ==
    [][last_event'.type = "tab_key" /\ ~background_image
           => ~Raised(ran') /\ LayerTransform' = LayerTransform]_vars

\* ------------------------------------------------------------------------
\* The sides of the logo given to the resample step
\* ------------------------------------------------------------------------
InScaleRange == LogoScaleMin <= logo_scale /\ logo_scale <= LogoScaleMax

PositiveSides(box) == box.w >= 1 /\ box.h >= 1

\* the last event ran the preview pipeline or the export
Resampled == Renders(ran) >= 1 \/ last_event.type = "export"

\* C40: for every logo of positive width and height, elongated ones
\* included, and every logo scale in [0.05, 2.0], the width and height
\* computed for the canvas of 512 and for the canvas of 1024 are at least
\* one pixel, so that the resample step is never given a zero side
C40_LogoSidesPositive ==
    logo_image # NoImage /\ InScaleRange /\ Resampled =>
        /\ PositiveSides(composite_logo_on_canvas(State, PreviewPx))
        /\ PositiveSides(composite_logo_on_canvas(State, ExportPx))

\* what the code does: the longer side is at least one pixel less than
\* the square it is fitted in, which is at least 25 pixels
LongSidePositive ==
    logo_image # NoImage /\ InScaleRange =>
        /\ Max2(composite_logo_on_canvas(State, PreviewPx).w,
                composite_logo_on_canvas(State, PreviewPx).h) >= 24
        /\ Max2(composite_logo_on_canvas(State, ExportPx).w,
                composite_logo_on_canvas(State, ExportPx).h) >= 50

\* what the code does: a render or an export of a logo with a zero side
\* raises and shows nothing of it
ZeroSideRaises ==
    /\ Renders(ran) >= 1 /\ resize_raises(State, PreviewPx)
           => ~NoFailure
    /\ last_event.type = "export" /\ resize_raises(State, ExportPx)
           => Reported(ran) /\ export_file = "absent"

====
